---- MODULE Spec2Model ----
(***************************************************************************)
(* Model of the interner crate: the buffer pool (src/inner.rs), the        *)
(* alignment arithmetic (src/util.rs) and the Interner operations of the   *)
(* DataInterner wrapper (src/sync.rs).                                     *)
(*                                                                         *)
(* A buffer is a record [base, cap, data]: the address of its allocation,  *)
(* its capacity and its committed bytes (Len(data) is the Vec's len).      *)
(* Bytes at indices >= len are not part of the state: the code never reads *)
(* them.  A reference is a record [some, addr, bytes]: the start address   *)
(* and the bytes read through it at the time it is returned.               *)
(***************************************************************************)
EXTENDS Integers, Sequences, FiniteSets, TLC

VARIABLES
    full_buffers,     \* DataInternerInner::full_buffers, in Vec order
    nonfull_buffers,  \* DataInternerInner::nonfull_buffers, in Vec order
    last,             \* the latest call on the interner and what it returned
    steps,            \* number of pool-changing calls made so far
    pc,               \* "api" for a free client, else the position in main()
    out,              \* the values main() has bound so far (w, x, y, z)
    handles,          \* Rc<DataInterner>: its strong and weak counts
    variant,          \* "sync" (RwLock) or "unsync" (RefCell) wrapper
    ret,              \* what the latest fallible call handed back
    sb,               \* the SliceBuilder of the client, builder.rs
    lock,             \* DataInterner::inner, the RwLock around the pool
    th                \* the threads that share the interner

\* the variables outside the pool and its single-threaded client
ext == <<handles, variant, ret, sb, lock, th>>

vars == <<full_buffers, nonfull_buffers, last, steps, pc, out, ext>>

-----------------------------------------------------------------------------
(* Bounds of the model *)

\* number of pool-changing calls (add, find_or_add, add_owned, clear) explored
MaxSteps == 3

\* number of buffers the pool may hold
MaxBufs == 2

\* main(): the allocator may place a buffer at any of the first
\* MaxMainDelta + 1 multiples of AllocAlign in its slot
MaxMainDelta == 31

(* Program constants *)

\* capacity of a freshly allocated buffer, inner.rs:162 and inner.rs:172
MinBufCap == 1024

\* the filler byte b'\n' written into alignment gaps, inner.rs:132
FillByte == 10

\* width of usize in bits (trailing_zeros of 0), util.rs:48
UsizeBits == 64

\* usize::MAX, builder.rs:23; the largest integer of the model stands for it
UsizeMax == 2147483647

(* Address space: the n-th allocation of the run lives in slot n, at one   *)
(* of the addresses the allocator may pick there, so distinct buffers      *)
(* never overlap.  Vec<u8> asks the allocator for alignment 1 only; the    *)
(* model takes what allocators give in practice, multiples of AllocAlign.  *)
SlotSize == 2048

AllocAlign == 8

BaseDeltas == {0, 1}

SlotBase(n, d) == (n + 1) * SlotSize + AllocAlign * d

-----------------------------------------------------------------------------
(* Inputs: byte slices with the alignment of their element type.           *)

Rep(n, b) == [i \in 1..n |-> b]

Inputs ==
    { [value |-> <<>>, align |-> 1],
      [value |-> <<1>>, align |-> 1],
      [value |-> <<1, 1>>, align |-> 1],
      [value |-> <<1, 1>>, align |-> 2],
      [value |-> Rep(4, 1), align |-> 4],
      [value |-> Rep(8, 1), align |-> 8],
      [value |-> Rep(16, 1), align |-> 16] }

\* caller-owned Vec<u8> handed to add_owned_bytes: data and capacity
OwnedVecs ==
    { [data |-> <<>>, cap |-> 0],
      [data |-> <<>>, cap |-> 2],
      [data |-> <<2, 1, 1>>, cap |-> 3],
      [data |-> <<2, 1, 1>>, cap |-> 8],
      [data |-> <<1>>, cap |-> 3] }

-----------------------------------------------------------------------------
(* Alignment arithmetic, util.rs *)

RECURSIVE BitAnd(_, _)
BitAnd(a, b) ==
    IF a = 0 \/ b = 0 THEN 0
    ELSE (a % 2) * (b % 2) + 2 * BitAnd(a \div 2, b \div 2)

RECURSIVE TrailingZerosFrom(_, _)
TrailingZerosFrom(x, n) ==
    IF n = UsizeBits THEN UsizeBits
    ELSE IF x % 2 = 1 THEN n
    ELSE TrailingZerosFrom(x \div 2, n + 1)

trailing_zeros(x) == IF x = 0 THEN UsizeBits ELSE TrailingZerosFrom(x, 0)

\* mutant: the null address counts as having no trailing zero bit
is_aligned_to_null_odd(align, ptr) ==
    (IF ptr = 0 THEN 0 ELSE trailing_zeros(ptr)) >= trailing_zeros(align)

is_aligned_to(align, ptr) == trailing_zeros(ptr) >= trailing_zeros(align)

\* mutant: the low bits of the address taken as the padding
align_offset_low_bits(align, ptr) == BitAnd(ptr, align - 1)

align_offset(align, ptr) ==
    LET mask == align - 1
    IN  BitAnd(align - BitAnd(ptr, mask), mask)

-----------------------------------------------------------------------------
(* References *)

None == [some |-> FALSE, addr |-> 0, bytes |-> <<>>]

\* &buf[idx..][..len] : the address and the bytes seen through the slice
SliceOf(buf, idx, len) ==
    [some |-> TRUE, addr |-> buf.base + idx,
     bytes |-> SubSeq(buf.data, idx + 1, idx + len)]

\* &[] : an empty slice that points into no buffer (any aligned address)
EmptyRef(align) == [some |-> TRUE, addr |-> align, bytes |-> <<>>]

\* mutant: memmem::rfind, the index of the last occurrence
MemRFind(hay, needle) ==
    LET n == Len(needle)
        hits == { i \in 0..(Len(hay) - n) : SubSeq(hay, i + 1, i + n) = needle }
    IN  IF hits = {} THEN -1
        ELSE CHOOSE i \in hits : \A j \in hits : i >= j

\* memchr::memmem::find : index of the first occurrence, -1 for None
MemFind(hay, needle) ==
    LET n == Len(needle)
        hits == { i \in 0..(Len(hay) - n) : SubSeq(hay, i + 1, i + n) = needle }
    IN  IF hits = {} THEN -1
        ELSE CHOOSE i \in hits : \A j \in hits : i <= j

-----------------------------------------------------------------------------
(* The buffer pool, inner.rs *)

\* one loop of find_bytes_with_align over a buffer collection, from index i
RECURSIVE FindIn(_, _, _, _)
FindIn(bufs, i, value, align) ==
    IF i > Len(bufs) THEN None
    ELSE LET idx == MemFind(bufs[i].data, value)
         IN  IF idx # -1 /\ is_aligned_to(align, bufs[i].base + idx)
             THEN SliceOf(bufs[i], idx, Len(value))
             ELSE FindIn(bufs, i + 1, value, align)

\* mutant: the loop over nonfull_buffers is missing
find_full_only(full, nonfull, value, align) == FindIn(full, 1, value, align)

find_bytes_with_align(full, nonfull, value, align) ==
    LET r == FindIn(full, 1, value, align)
    IN  IF r.some THEN r ELSE FindIn(nonfull, 1, value, align)

\* mutant: the filled buffer is not taken out of nonfull_buffers
SwapRemoveNothing(s, i) == s

\* Vec::swap_remove(i): the last element takes the place of element i
SwapRemove(s, i) ==
    LET n == Len(s)
    IN  [k \in 1..(n - 1) |-> IF k = i THEN s[n] ELSE s[k]]

\* mutant: every absorbed vector goes to nonfull_buffers
add_owned_all_nonfull(full, nonfull, vec) ==
    IF vec.cap = 0
    THEN [full |-> full, nonfull |-> nonfull, ref |-> EmptyRef(1)]
    ELSE [full |-> full, nonfull |-> Append(nonfull, vec),
          ref |-> SliceOf(vec, 0, Len(vec.data))]

\* add_owned_bytes: the pool after absorbing vec, and the reference returned
add_owned_bytes(full, nonfull, vec) ==
    IF vec.cap = 0
    THEN [full |-> full, nonfull |-> nonfull, ref |-> EmptyRef(1)]
    ELSE IF Len(vec.data) = vec.cap
    THEN [full |-> Append(full, vec), nonfull |-> nonfull,
          ref |-> SliceOf(vec, 0, Len(vec.data))]
    ELSE [full |-> full, nonfull |-> Append(nonfull, vec),
          ref |-> SliceOf(vec, 0, Len(vec.data))]

\* a byte of spare capacity that was never written
Uninit == -1

\* mutant: write_bytes is missing, set_len commits the gap as it is
WriteAtNoFill(buf, fill_len, value) ==
    [buf EXCEPT !.data = buf.data \o Rep(fill_len, Uninit) \o value]

\* mutant: ptr is not advanced by old_len, the write starts at the base
WriteAtBase(buf, fill_len, value) ==
    [buf EXCEPT !.data = Rep(fill_len, FillByte) \o value \o buf.data]

\* write_bytes(fill) + copy_nonoverlapping(value) + set_len on one buffer
WriteAt(buf, fill_len, value) ==
    [buf EXCEPT !.data = buf.data \o Rep(fill_len, FillByte) \o value]

\* mutant: the returned slice starts at the filler
OwnedAtNoFill(buf, old_len, fill_len, len) == SliceOf(buf, old_len, len)

\* &buffer[old_len + fill_len..][..value.len()]
OwnedAt(buf, old_len, fill_len, len) == SliceOf(buf, old_len + fill_len, len)

\* mutant: the first capacity test is inverted
AcceptsInverted(buf, value, align) ==
    LET remaining_capacity == buf.cap - Len(buf.data)
        offset == align_offset(align, buf.base + Len(buf.data))
    IN  /\ ~(remaining_capacity > Len(value))
        /\ ~(offset > remaining_capacity)
        /\ ~(remaining_capacity - offset < Len(value))

\* does the nonfull buffer accept value at align (the three `continue`s)
Accepts(buf, value, align) ==
    LET remaining_capacity == buf.cap - Len(buf.data)
        offset == align_offset(align, buf.base + Len(buf.data))
    IN  /\ ~(remaining_capacity < Len(value))
        /\ ~(offset > remaining_capacity)
        /\ ~(remaining_capacity - offset < Len(value))

\* mutant: the last accepting buffer is taken instead of the first
LastFit(nonfull, value, align) ==
    LET fits == { i \in 1..Len(nonfull) : Accepts(nonfull[i], value, align) }
    IN  IF fits = {} THEN 0 ELSE CHOOSE i \in fits : \A j \in fits : i >= j

\* index of the first nonfull buffer that accepts the value, 0 if none
FirstFit(nonfull, value, align) ==
    LET fits == { i \in 1..Len(nonfull) : Accepts(nonfull[i], value, align) }
    IN  IF fits = {} THEN 0 ELSE CHOOSE i \in fits : \A j \in fits : i <= j

\* mutant: .max(1024) is missing
MaxFirst(a, b) == a

Max(a, b) == IF a >= b THEN a ELSE b

\* add_bytes_with_align; newbase is the address the allocator returns if a
\* new buffer is needed
add_bytes_with_align(full, nonfull, value, align, newbase) ==
    LET i == FirstFit(nonfull, value, align)
    IN  IF i # 0
        THEN LET old_len == Len(nonfull[i].data)
                 offset == align_offset(align, nonfull[i].base + old_len)
                 buf == WriteAt(nonfull[i], offset, value)
                 owned == OwnedAt(buf, old_len, offset, Len(value))
             IN  IF Len(buf.data) = buf.cap
                 THEN [full |-> Append(full, buf),
                       nonfull |-> SwapRemove(nonfull, i), ref |-> owned]
                 ELSE [full |-> full,
                       nonfull |-> [nonfull EXCEPT ![i] = buf], ref |-> owned]
        ELSE IF align = 1
        THEN LET vec == IF Len(value) < MinBufCap
                        THEN [base |-> newbase, cap |-> MinBufCap, data |-> value]
                        ELSE [base |-> newbase, cap |-> Len(value), data |-> value]
             IN  add_owned_bytes(full, nonfull, vec)
        ELSE LET empty == [base |-> newbase,
                           cap |-> Max(Len(value) + align - 1, MinBufCap),
                           data |-> <<>>]
                 offset == align_offset(align, newbase)
                 buffer == WriteAt(empty, offset, value)
                 owned == OwnedAt(buffer, 0, offset, Len(value))
             IN  IF Len(buffer.data) = buffer.cap
                 THEN [full |-> Append(full, buffer), nonfull |-> nonfull,
                       ref |-> owned]
                 ELSE [full |-> full, nonfull |-> Append(nonfull, buffer),
                       ref |-> owned]

find_or_add_bytes_with_align(full, nonfull, value, align, newbase) ==
    LET found == find_bytes_with_align(full, nonfull, value, align)
    IN  IF found.some
        THEN [full |-> full, nonfull |-> nonfull, ref |-> found]
        ELSE add_bytes_with_align(full, nonfull, value, align, newbase)

\* mutant: buffer.clear() is missing
ClearBufKeep(buf) == buf

\* Vec::clear on one buffer: len 0, allocation kept
ClearBuf(buf) == [buf EXCEPT !.data = <<>>]

\* mutant: full_buffers is not drained, its buffers are cleared in place
clear_in_place(full, nonfull) ==
    [full |-> [k \in 1..Len(full) |-> ClearBuf(full[k])],
     nonfull |-> [k \in 1..Len(nonfull) |-> ClearBuf(nonfull[k])]]

\* mutant: full_buffers is emptied without handing its buffers over
clear_drop_full(full, nonfull) ==
    [full |-> <<>>,
     nonfull |-> [k \in 1..Len(nonfull) |-> ClearBuf(nonfull[k])]]

\* DataInternerInner::clear
clear(full, nonfull) ==
    [full |-> <<>>,
     nonfull |-> [k \in 1..(Len(nonfull) + Len(full)) |->
                    IF k <= Len(nonfull) THEN ClearBuf(nonfull[k])
                    ELSE ClearBuf(full[k - Len(nonfull)])]]

-----------------------------------------------------------------------------
(* The Interner operations of DataInterner, sync.rs *)

NumBufs == Len(full_buffers) + Len(nonfull_buffers)

Call(op, value, align, cap, base, res) ==
    [op |-> op, value |-> value, align |-> align, cap |-> cap, base |-> base,
     res |-> res]

\* would add_bytes_with_align have to allocate
NeedsAlloc(value, align) == FirstFit(nonfull_buffers, value, align) = 0

\* a DataInterner owned directly (or by one Rc), no builder, no thread
NoRet == [kind |-> "none", base |-> 0, cap |-> 0, data |-> <<>>]

\* no SliceBuilder constructed
NoBuilder ==
    [state |-> "none", dbg |-> FALSE, size |-> 0, align |-> 1, base |-> 0,
     dcap |-> 0, data |-> <<>>, start |-> 0, len |-> 0, cap |-> 0,
     pushed |-> <<>>, popped |-> [some |-> FALSE, value |-> <<>>]]

ExtInit ==
    /\ handles = [strong |-> 1, weak |-> 0]
    /\ variant = "sync"
    /\ ret = NoRet
    /\ sb = NoBuilder
    /\ lock = [writer |-> 0, readers |-> {}, poisoned |-> FALSE,
               broken |-> FALSE, parking_lot |-> FALSE]
    /\ th = <<>>

Init ==
    /\ full_buffers = <<>>
    /\ nonfull_buffers = <<>>
    /\ last = Call("new", <<>>, 1, 0, 0, None)
    /\ steps = 0
    /\ pc = "api"
    /\ out = <<>>
    /\ ExtInit

\* find_bytes / find_slice / find_value
Find(in) ==
    /\ pc = "api"
    /\ last' = Call("find", in.value, in.align, 0, 0,
                    IF in.value = <<>> THEN EmptyRef(in.align)
                    ELSE find_bytes_with_align(full_buffers, nonfull_buffers,
                                               in.value, in.align))
    /\ UNCHANGED <<full_buffers, nonfull_buffers, steps, pc, out, ext>>

\* mutant: the is_empty() early return is missing
AddResultUnchecked(full, nonfull, value, align, newbase) ==
    add_bytes_with_align(full, nonfull, value, align, newbase)

\* the pool and the reference after add_bytes / add_slice / add_value
AddResult(full, nonfull, value, align, newbase) ==
    IF value = <<>>
    THEN [full |-> full, nonfull |-> nonfull, ref |-> EmptyRef(align)]
    ELSE add_bytes_with_align(full, nonfull, value, align, newbase)

\* mutant: add looks the value up first and appends only when it is absent
AddIfAbsent(in, d) ==
    /\ pc = "api"
    /\ steps < MaxSteps
    /\ in.value # <<>> /\ NeedsAlloc(in.value, in.align) => NumBufs < MaxBufs
    /\ LET found == find_bytes_with_align(full_buffers, nonfull_buffers,
                                          in.value, in.align)
           r == IF in.value # <<>> /\ found.some
                THEN [full |-> full_buffers, nonfull |-> nonfull_buffers,
                      ref |-> found]
                ELSE AddResult(full_buffers, nonfull_buffers, in.value,
                               in.align, SlotBase(NumBufs, d))
       IN  /\ full_buffers' = r.full
           /\ nonfull_buffers' = r.nonfull
           /\ last' = Call("add", in.value, in.align, 0, 0, r.ref)
    /\ steps' = steps + 1
    /\ UNCHANGED <<pc, out, ext>>

Add(in, d) ==
    /\ pc = "api"
    /\ steps < MaxSteps
    /\ in.value # <<>> /\ NeedsAlloc(in.value, in.align) => NumBufs < MaxBufs
    /\ LET r == AddResult(full_buffers, nonfull_buffers, in.value, in.align,
                          SlotBase(NumBufs, d))
       IN  /\ full_buffers' = r.full
           /\ nonfull_buffers' = r.nonfull
           /\ last' = Call("add", in.value, in.align, 0, 0, r.ref)
    /\ steps' = steps + 1
    /\ UNCHANGED <<pc, out, ext>>

\* the pool and the reference after find_or_add_bytes / find_or_add_slice
FindOrAddResult(full, nonfull, value, align, newbase) ==
    IF value = <<>>
    THEN [full |-> full, nonfull |-> nonfull, ref |-> EmptyRef(align)]
    ELSE find_or_add_bytes_with_align(full, nonfull, value, align, newbase)

FindOrAdd(in, d) ==
    /\ pc = "api"
    /\ steps < MaxSteps
    /\ in.value # <<>> /\ NeedsAlloc(in.value, in.align) => NumBufs < MaxBufs
    /\ LET r == FindOrAddResult(full_buffers, nonfull_buffers, in.value,
                                in.align, SlotBase(NumBufs, d))
       IN  /\ full_buffers' = r.full
           /\ nonfull_buffers' = r.nonfull
           /\ last' = Call("find_or_add", in.value, in.align, 0, 0, r.ref)
    /\ steps' = steps + 1
    /\ UNCHANGED <<pc, out, ext>>

\* the pool and the reference after add_owned_bytes
AddOwnedResult(full, nonfull, vec) ==
    IF vec.cap = 0
    THEN [full |-> full, nonfull |-> nonfull, ref |-> EmptyRef(1)]
    ELSE add_owned_bytes(full, nonfull, vec)

AddOwned(v, d) ==
    /\ pc = "api"
    /\ steps < MaxSteps
    /\ v.cap # 0 => NumBufs < MaxBufs
    /\ LET base == IF v.cap = 0 THEN 1 ELSE SlotBase(NumBufs, d)
           vec == [base |-> base, cap |-> v.cap, data |-> v.data]
           r == AddOwnedResult(full_buffers, nonfull_buffers, vec)
       IN  /\ full_buffers' = r.full
           /\ nonfull_buffers' = r.nonfull
           /\ last' = Call("add_owned", v.data, 1, v.cap, base, r.ref)
    /\ steps' = steps + 1
    /\ UNCHANGED <<pc, out, ext>>

\* DataInterner::clear / try_clear
Clear ==
    /\ pc = "api"
    /\ steps < MaxSteps
    /\ LET r == clear(full_buffers, nonfull_buffers)
       IN  /\ full_buffers' = r.full
           /\ nonfull_buffers' = r.nonfull
    /\ last' = Call("clear", <<>>, 1, 0, 0, None)
    /\ steps' = steps + 1
    /\ UNCHANGED <<pc, out, ext>>

Next ==
    \/ \E in \in Inputs : Find(in)
    \/ \E in \in Inputs, d \in BaseDeltas : Add(in, d)
    \/ \E in \in Inputs, d \in BaseDeltas : FindOrAdd(in, d)
    \/ \E v \in OwnedVecs, d \in BaseDeltas : AddOwned(v, d)
    \/ Clear

Spec == Init /\ [][Next]_vars

-----------------------------------------------------------------------------
(* main(), bin/main.rs: the four calls on a fresh interner.                *)

\* "Hello, world!"
Hello == <<72, 101, 108, 108, 111, 44, 32, 119, 111, 114, 108, 100, 33>>

\* "Lorem ipsum sit dolor amet."
Lorem == <<76, 111, 114, 101, 109, 32, 105, 112, 115, 117, 109, 32, 115, 105,
           116, 32, 100, 111, 108, 111, 114, 32, 97, 109, 101, 116, 46>>

\* "Hello, world!Lorem"
HelloLorem == Hello \o SubSeq(Lorem, 1, 5)

MainDeltas == 0..MaxMainDelta

InitMain ==
    /\ full_buffers = <<>>
    /\ nonfull_buffers = <<>>
    /\ last = Call("new", <<>>, 1, 0, 0, None)
    /\ steps = 0
    /\ pc = "main_w"
    /\ out = <<>>
    /\ ExtInit

\* a yoked_add_str(value) statement of main at position at
MainAdd(at, to, value, d) ==
    /\ pc = at
    /\ LET r == AddResult(full_buffers, nonfull_buffers, value, 1,
                          SlotBase(NumBufs, d))
       IN  /\ full_buffers' = r.full
           /\ nonfull_buffers' = r.nonfull
           /\ last' = Call("add", value, 1, 0, 0, r.ref)
           /\ out' = Append(out, r.ref)
    /\ steps' = steps + 1
    /\ pc' = to
    /\ UNCHANGED ext

\* a find_str(value) / yoked_find_str(value) statement of main at position at
MainFind(at, to, value) ==
    /\ pc = at
    /\ LET r == IF value = <<>> THEN EmptyRef(1)
                ELSE find_bytes_with_align(full_buffers, nonfull_buffers,
                                           value, 1)
       IN  /\ last' = Call("find", value, 1, 0, 0, r)
           /\ out' = Append(out, r)
    /\ pc' = to
    /\ UNCHANGED <<full_buffers, nonfull_buffers, steps, ext>>

\* let w = interner.yoked_add_str("Hello, world!");
MainAddHello == \E d \in MainDeltas : MainAdd("main_w", "main_x", Hello, d)

\* let x = interner.yoked_add_str("Lorem ipsum sit dolor amet.");
MainAddLorem == \E d \in MainDeltas : MainAdd("main_x", "main_y", Lorem, d)

\* let y = interner.find_str("Hello, world!").unwrap();
MainFindHello == MainFind("main_y", "main_z", Hello)

\* let z = interner.yoked_find_str("Hello, world!Lorem").unwrap();
MainFindHelloLorem == MainFind("main_z", "main_done", HelloLorem)

NextMain ==
    \/ MainAddHello
    \/ MainAddLorem
    \/ MainFindHello
    \/ MainFindHelloLorem

SpecMain == InitMain /\ [][NextMain]_vars

-----------------------------------------------------------------------------
(* Ownership: try_add_owned, sync.rs; try_clear through an Rc, util.rs;    *)
(* into_unsync, sync.rs.                                                   *)

\* typed vectors Vec<T> handed to try_add_owned: size_of and align_of T,
\* len in elements, the bytes of the elements and the capacity in elements
TypedVecs ==
    { [size |-> 1, align |-> 1, len |-> 1, data |-> <<1>>, cap |-> 3],
      [size |-> 3, align |-> 1, len |-> 1, data |-> <<2, 1, 1>>, cap |-> 1],
      [size |-> 2, align |-> 2, len |-> 1, data |-> <<1, 1>>, cap |-> 1],
      [size |-> 2, align |-> 2, len |-> 1, data |-> <<1, 1>>, cap |-> 2],
      [size |-> 2, align |-> 2, len |-> 0, data |-> <<>>, cap |-> 0],
      [size |-> 0, align |-> 1, len |-> 2, data |-> <<>>, cap |-> UsizeMax] }

\* Err(value): the vector handed back to the caller
ErrVec(vec) ==
    [kind |-> "vec", base |-> vec.base, cap |-> vec.cap, data |-> vec.data]

\* Ok(()) and Err(()) of try_clear
Unit(kind) == [kind |-> kind, base |-> 0, cap |-> 0, data |-> <<>>]

\* bytemuck::try_cast_vec::<T, u8>: refused unless align_of T = align_of u8
try_cast_vec(vec) ==
    IF vec.align # 1
    THEN [ok |-> FALSE, vec |-> vec]
    ELSE [ok |-> TRUE,
          vec |-> [base |-> vec.base, cap |-> vec.cap * vec.size,
                   data |-> vec.data]]

\* mutant: the vector is cast to bytes without the alignment test
try_add_owned_unchecked(full, nonfull, vec) ==
    IF vec.cap = 0
    THEN [full |-> full, nonfull |-> nonfull, ref |-> EmptyRef(vec.align),
          ret |-> NoRet]
    ELSE IF vec.size = 0
    THEN [full |-> full, nonfull |-> nonfull, ref |-> EmptyRef(vec.align),
          ret |-> NoRet]
    ELSE LET r == AddOwnedResult(full, nonfull,
                      [base |-> vec.base, cap |-> vec.cap * vec.size,
                       data |-> vec.data])
         IN  [full |-> r.full, nonfull |-> r.nonfull, ref |-> r.ref,
              ret |-> NoRet]

\* DataInterner::try_add_owned: the pool, the slice of an Ok (ref.some) and
\* the vector of an Err (ret)
try_add_owned(full, nonfull, vec) ==
    IF vec.cap = 0
    THEN [full |-> full, nonfull |-> nonfull, ref |-> EmptyRef(vec.align),
          ret |-> NoRet]
    ELSE IF vec.size = 0
    THEN [full |-> full, nonfull |-> nonfull, ref |-> EmptyRef(vec.align),
          ret |-> NoRet]
    ELSE LET c == try_cast_vec(vec)
         IN  IF ~c.ok
             THEN [full |-> full, nonfull |-> nonfull, ref |-> None,
                   ret |-> ErrVec(c.vec)]
             ELSE LET r == AddOwnedResult(full, nonfull, c.vec)
                  IN  [full |-> r.full, nonfull |-> r.nonfull, ref |-> r.ref,
                       ret |-> NoRet]

\* does try_add_owned put the vector into the pool
Absorbs(v) == v.cap # 0 /\ v.size # 0 /\ v.align = 1

TryAddOwned(v, d) ==
    /\ pc = "api"
    /\ variant = "sync"
    /\ steps < MaxSteps
    /\ Absorbs(v) => NumBufs < MaxBufs
    /\ LET base == IF v.cap = 0 \/ v.size = 0 THEN v.align
                   ELSE SlotBase(NumBufs, d)
           vec == [size |-> v.size, align |-> v.align, base |-> base,
                   cap |-> v.cap, data |-> v.data]
           r == try_add_owned(full_buffers, nonfull_buffers, vec)
       IN  /\ full_buffers' = r.full
           /\ nonfull_buffers' = r.nonfull
           /\ last' = Call("try_add_owned", v.data, v.align,
                           IF v.size = 0 THEN 0 ELSE v.cap * v.size, base,
                           r.ref)
           /\ ret' = r.ret
    /\ steps' = steps + 1
    /\ UNCHANGED <<pc, out, handles, variant, sb, lock, th>>

\* number of Rc and Weak pointers the model lets exist at once
MaxHandles == 2

\* Rc::clone
RcClone ==
    /\ pc = "api"
    /\ handles.strong + handles.weak < MaxHandles
    /\ handles' = [handles EXCEPT !.strong = @ + 1]
    /\ UNCHANGED <<full_buffers, nonfull_buffers, last, steps, pc, out,
                   variant, ret, sb, lock, th>>

\* Rc::downgrade
RcDowngrade ==
    /\ pc = "api"
    /\ handles.strong + handles.weak < MaxHandles
    /\ handles' = [handles EXCEPT !.weak = @ + 1]
    /\ UNCHANGED <<full_buffers, nonfull_buffers, last, steps, pc, out,
                   variant, ret, sb, lock, th>>

\* drop of one of several Rc, or of a Weak
RcDrop ==
    /\ pc = "api"
    /\ \/ handles.strong > 1 /\ handles' = [handles EXCEPT !.strong = @ - 1]
       \/ handles.weak > 0 /\ handles' = [handles EXCEPT !.weak = @ - 1]
    /\ UNCHANGED <<full_buffers, nonfull_buffers, last, steps, pc, out,
                   variant, ret, sb, lock, th>>

\* Rc::get_mut: Some only without other Rc or Weak pointers
rc_get_mut(h) == h.strong = 1 /\ h.weak = 0

\* mutant: the inner try_clear is reached without Rc::get_mut
rc_try_clear_always(full, nonfull, h) ==
    LET r == clear(full, nonfull)
    IN  [full |-> r.full, nonfull |-> r.nonfull, ret |-> Unit("ok")]

\* <Rc<I> as Interner>::try_clear over DataInterner::try_clear
rc_try_clear(full, nonfull, h) ==
    IF rc_get_mut(h)
    THEN LET r == clear(full, nonfull)
         IN  [full |-> r.full, nonfull |-> r.nonfull, ret |-> Unit("ok")]
    ELSE [full |-> full, nonfull |-> nonfull, ret |-> Unit("err")]

RcTryClear ==
    /\ pc = "api"
    /\ variant = "sync"
    /\ steps < MaxSteps
    /\ LET r == rc_try_clear(full_buffers, nonfull_buffers, handles)
       IN  /\ full_buffers' = r.full
           /\ nonfull_buffers' = r.nonfull
           /\ ret' = r.ret
    /\ last' = Call("try_clear", <<>>, 1, 0, 0, None)
    /\ steps' = steps + 1
    /\ UNCHANGED <<pc, out, handles, variant, sb, lock, th>>

\* mutant: the new wrapper starts from an empty DataInternerInner
into_unsync_fresh(full, nonfull) == [full |-> <<>>, nonfull |-> <<>>]

\* DataInterner::into_unsync: RefCell::new(self.inner.into_inner())
into_unsync(full, nonfull) == [full |-> full, nonfull |-> nonfull]

\* into_unsync takes self by value: the interner is not shared
IntoUnsync ==
    /\ pc = "api"
    /\ variant = "sync"
    /\ rc_get_mut(handles)
    /\ ~lock.poisoned
    /\ LET r == into_unsync(full_buffers, nonfull_buffers)
       IN  /\ full_buffers' = r.full
           /\ nonfull_buffers' = r.nonfull
    /\ variant' = "unsync"
    /\ last' = Call("into_unsync", <<>>, 1, 0, 0, None)
    /\ UNCHANGED <<steps, pc, out, handles, ret, sb, lock, th>>

\* find_bytes / find_slice of the sync wrapper as a function of the pool
FindResult(full, nonfull, value, align) ==
    IF value = <<>> THEN EmptyRef(align)
    ELSE find_bytes_with_align(full, nonfull, value, align)

\* find_bytes / find_slice of unsync::DataInterner: the same contract as
\* the sync wrapper, under a RefCell borrow
unsync_find(full, nonfull, value, align) ==
    IF value = <<>> THEN EmptyRef(align)
    ELSE find_bytes_with_align(full, nonfull, value, align)

UnsyncFind(in) ==
    /\ pc = "api"
    /\ variant = "unsync"
    /\ last' = Call("find", in.value, in.align, 0, 0,
                    unsync_find(full_buffers, nonfull_buffers, in.value,
                                in.align))
    /\ UNCHANGED <<full_buffers, nonfull_buffers, steps, pc, out, ext>>

NextOwner ==
    \/ \E in \in Inputs : variant = "sync" /\ Find(in)
    \/ \E v \in OwnedVecs, d \in BaseDeltas : variant = "sync" /\ AddOwned(v, d)
    \/ \E v \in TypedVecs, d \in BaseDeltas : TryAddOwned(v, d)
    \/ RcClone
    \/ RcDowngrade
    \/ RcDrop
    \/ RcTryClear
    \/ IntoUnsync
    \/ \E in \in Inputs : UnsyncFind(in)

SpecOwner == Init /\ [][NextOwner]_vars

-----------------------------------------------------------------------------
(* SliceBuilder, builder.rs.  sb holds the fields of one builder: data    *)
(* (the bytes of the Vec<u8> up to its len), dcap and base (the capacity  *)
(* and the address of its allocation), start, len, cap; size and align    *)
(* are size_of and align_of the element type, dbg is                      *)
(* cfg!(debug_assertions).  pushed is the history: the elements pushed    *)
(* and not popped; popped is what the last pop returned.                  *)

\* number of elements the model lets a builder hold
MaxElems == 3

\* size_of and align_of the element types T
ElemTypes ==
    { [size |-> 0, align |-> 1],
      [size |-> 1, align |-> 1],
      [size |-> 2, align |-> 2],
      [size |-> 4, align |-> 4],
      [size |-> 16, align |-> 16] }

\* the values of an element type, as their bytes
Elems(size) == IF size = 0 THEN { <<>> } ELSE { Rep(size, 1), Rep(size, 2) }

\* the arguments of reserve
ReserveAdds == {0, 1, 3, 10, UsizeMax \div 16, UsizeMax}

\* the lengths of the slices handed to extend_from_slice
SliceLens == {0, 1, 3, 10, UsizeMax}

\* isize::MAX, the largest allocation in bytes, for the word of UsizeMax
IsizeMax == UsizeMax \div 2

\* smallest non-zero capacity Vec<u8> grows to (RawVec::MIN_NON_ZERO_CAP)
VecMinNonZeroCap == 8

\* mutant: cap starts at 0 for every element type
new_zero_cap(t, dbg) ==
    [state |-> "open", dbg |-> dbg, size |-> t.size, align |-> t.align,
     base |-> 1, dcap |-> 0, data |-> <<>>, start |-> 0, len |-> 0,
     cap |-> 0,
     pushed |-> <<>>, popped |-> [some |-> FALSE, value |-> <<>>]]

\* SliceBuilder::new
new(t, dbg) ==
    [state |-> "open", dbg |-> dbg, size |-> t.size, align |-> t.align,
     base |-> 1, dcap |-> 0, data |-> <<>>, start |-> 0, len |-> 0,
     cap |-> IF t.size = 0 THEN UsizeMax ELSE 0,
     pushed |-> <<>>, popped |-> [some |-> FALSE, value |-> <<>>]]

\* expect("capacity overflow") / panic!("capacity overflow")
Panicked(b) == [b EXCEPT !.state = "panicked"]

\* mutant: Vec::reserve_exact, the capacity grows to len + additional only
vec_reserve_exact(b, additional, newbase) ==
    IF b.dcap - Len(b.data) >= additional
    THEN b
    ELSE IF additional > IsizeMax - Len(b.data)
    THEN Panicked(b)
    ELSE [b EXCEPT !.dcap = Len(b.data) + additional, !.base = newbase]

\* Vec::<u8>::reserve(additional) on the builder's data: nothing when the
\* capacity suffices, a panic when the new capacity would exceed isize::MAX,
\* else an amortized reallocation that may move
vec_reserve(b, additional, newbase) ==
    IF b.dcap - Len(b.data) >= additional
    THEN b
    ELSE IF \/ additional > IsizeMax - Len(b.data)
            \/ 2 * b.dcap > IsizeMax
    THEN Panicked(b)
    ELSE [b EXCEPT !.dcap = Max(Max(2 * b.dcap, Len(b.data) + additional),
                                VecMinNonZeroCap),
                   !.base = newbase]

\* a + b on usize: a panic with overflow checks on, the wrapped sum without
WrapAdd(a, b) == IF b > UsizeMax - a THEN b - (UsizeMax - a) - 1 ELSE a + b

AddOverflows(a, b) == b > UsizeMax - a

\* a write or copy past the allocation
OutOfBounds(b) == [b EXCEPT !.state = "ub"]

\* debug_assert!(self.cap >= requested_cap)
debug_assert_cap(b, requested_cap) ==
    IF b.dbg /\ b.cap < requested_cap THEN Panicked(b) ELSE b

\* mutant: write_bytes(0, new_align_offset) is missing, the prefix keeps
\* what the reallocation copied there
realign_no_zero(b, v, off) ==
    IF off + b.len * b.size > v.dcap
    THEN OutOfBounds(v)
    ELSE [v EXCEPT !.data = [i \in 1..off |-> IF i <= Len(v.data)
                                               THEN v.data[i] ELSE Uninit]
                       \o SubSeq(v.data, b.start + 1, b.start + b.len * b.size),
                   !.start = off]

\* mutant: src is the start of the Vec, not the old place of the elements
realign_from_base(b, v, off) ==
    IF off + b.len * b.size > v.dcap
    THEN OutOfBounds(v)
    ELSE [v EXCEPT !.data = Rep(off, 0) \o SubSeq(v.data, 1, b.len * b.size),
                   !.start = off]

\* dst.copy_from(src, len * size); write_bytes(0, off); set_len; start = off
realign(b, v, off) ==
    IF off + b.len * b.size > v.dcap
    THEN OutOfBounds(v)
    ELSE [v EXCEPT !.data = Rep(off, 0)
                       \o SubSeq(v.data, b.start + 1, b.start + b.len * b.size),
                   !.start = off]

\* SliceBuilder::reserve
reserve(b, additional, newbase) ==
    IF additional > UsizeMax - b.len
    THEN Panicked(b)
    ELSE LET requested_cap == b.len + additional
         IN  IF requested_cap <= b.cap
             THEN b
             ELSE IF b.size = 0
                     \/ requested_cap - b.cap > UsizeMax \div b.size
             THEN Panicked(b)
             ELSE LET additional_raw_cap == (requested_cap - b.cap) * b.size
                  IN  IF b.align = 1
                      THEN LET v == vec_reserve(b, additional_raw_cap, newbase)
                           IN  IF v.state # "open" THEN v
                               ELSE debug_assert_cap(
                                        [v EXCEPT !.cap = v.dcap \div b.size],
                                        requested_cap)
                      ELSE IF b.dcap = 0
                      THEN IF b.dbg /\ AddOverflows(additional_raw_cap,
                                                    b.align - 1)
                           THEN Panicked(b)
                           ELSE
                           LET v == vec_reserve(b,
                                        WrapAdd(additional_raw_cap,
                                                b.align - 1),
                                        newbase)
                               off == align_offset(b.align, v.base)
                               w == [v EXCEPT
                                        !.start = off,
                                        !.cap = (v.dcap - off) \div b.size]
                               x == debug_assert_cap(w, requested_cap)
                           IN  IF v.state # "open" THEN v
                               ELSE IF x.state # "open" THEN x
                               ELSE IF off > v.dcap THEN OutOfBounds(x)
                               ELSE [x EXCEPT !.data = Rep(off, 0)]
                      ELSE LET v == vec_reserve(b, additional_raw_cap, newbase)
                               off == align_offset(b.align, v.base)
                               w == IF b.start # off THEN realign(b, v, off)
                                    ELSE v
                           IN  IF v.state # "open" THEN v
                               ELSE IF w.state # "open" THEN w
                               ELSE debug_assert_cap(
                                        [w EXCEPT !.cap =
                                            (v.dcap - off) \div b.size],
                                        requested_cap)

\* SliceBuilder::extend_from_slice with a slice of n elements
extend_from_slice(b, n, newbase) ==
    IF b.dbg /\ AddOverflows(b.len, n)
    THEN Panicked(b)
    ELSE IF WrapAdd(b.len, n) > b.cap
    THEN reserve(b, n, newbase)
    ELSE b

\* mutant: len is incremented, set_len on the Vec is missing
push_no_set_len(b, value, newbase) ==
    LET r == IF b.len = b.cap THEN reserve(b, 1, newbase) ELSE b
    IN  IF r.state # "open" THEN r
        ELSE [r EXCEPT !.len = r.len + 1,
                       !.pushed = Append(b.pushed, value)]

\* SliceBuilder::push
push(b, value, newbase) ==
    LET r == IF b.len = b.cap THEN reserve(b, 1, newbase) ELSE b
        old_raw_len == r.start + r.len * r.size
    IN  IF r.state # "open" THEN r
        ELSE IF r.size # 0 /\ old_raw_len + r.size > r.dcap
        THEN OutOfBounds(r)
        ELSE [r EXCEPT !.data = SubSeq(r.data, 1, old_raw_len) \o value,
                       !.len = r.len + 1,
                       !.pushed = Append(b.pushed, value)]

\* mutant: the element is read and returned, len stays
pop_keep_len(b) ==
    IF b.len = 0
    THEN [b EXCEPT !.popped = [some |-> FALSE, value |-> <<>>]]
    ELSE LET new_raw_len == b.start + (b.len - 1) * b.size
         IN  [b EXCEPT !.popped = [some |-> TRUE,
                                   value |-> SubSeq(b.data, new_raw_len + 1,
                                                    new_raw_len + b.size)],
                       !.pushed = SubSeq(b.pushed, 1, Len(b.pushed) - 1)]

\* SliceBuilder::pop
pop(b) ==
    IF b.len = 0
    THEN [b EXCEPT !.popped = [some |-> FALSE, value |-> <<>>]]
    ELSE LET new_raw_len == b.start + (b.len - 1) * b.size
         IN  [b EXCEPT !.len = b.len - 1,
                       !.popped = [some |-> TRUE,
                                   value |-> SubSeq(b.data, new_raw_len + 1,
                                                    new_raw_len + b.size)],
                       !.data = SubSeq(b.data, 1, new_raw_len),
                       !.pushed = SubSeq(b.pushed, 1, Len(b.pushed) - 1)]

\* the elements of a slice of n elements of size bytes over bytes
ElemsOf(bytes, size, n) ==
    [k \in 1..n |-> IF size = 0 THEN <<>>
                    ELSE SubSeq(bytes, (k - 1) * size + 1, k * size)]

\* <SliceBuilder as Deref>::deref
deref(b) ==
    IF b.size = 0 THEN ElemsOf(<<>>, 0, b.len)
    ELSE IF b.len = 0 THEN <<>>
    ELSE ElemsOf(SubSeq(b.data, b.start + 1, Len(b.data)), b.size, b.len)

\* mutant: a builder of zero-sized elements finalizes to &[]
finalize_zst_empty(full, nonfull, b) ==
    IF b.size = 0 \/ b.cap = 0
    THEN [full |-> full, nonfull |-> nonfull, ref |-> EmptyRef(b.align),
          n |-> 0]
    ELSE LET r == AddOwnedResult(full, nonfull,
                      [base |-> b.base, cap |-> b.dcap, data |-> b.data])
         IN  [full |-> r.full, nonfull |-> r.nonfull,
              ref |-> [some |-> TRUE, addr |-> r.ref.addr + b.start,
                       bytes |-> SubSeq(r.ref.bytes, b.start + 1,
                                        b.start + b.len * b.size)],
              n |-> b.len]

\* mutant: only the elements are handed over, the padding prefix is cut off
finalize_without_padding(full, nonfull, b) ==
    IF b.size = 0
    THEN [full |-> full, nonfull |-> nonfull, ref |-> EmptyRef(b.align),
          n |-> b.len]
    ELSE IF b.cap = 0
    THEN [full |-> full, nonfull |-> nonfull, ref |-> EmptyRef(b.align),
          n |-> 0]
    ELSE LET r == AddOwnedResult(full, nonfull,
                      [base |-> b.base + b.start, cap |-> b.dcap - b.start,
                       data |-> SubSeq(b.data, b.start + 1, Len(b.data))])
         IN  [full |-> r.full, nonfull |-> r.nonfull,
              ref |-> [some |-> TRUE, addr |-> r.ref.addr,
                       bytes |-> SubSeq(r.ref.bytes, 1, b.len * b.size)],
              n |-> b.len]

\* SliceBuilder::finalize: the pool, the slice and its number of elements
finalize(full, nonfull, b) ==
    IF b.size = 0
    THEN [full |-> full, nonfull |-> nonfull, ref |-> EmptyRef(b.align),
          n |-> b.len]
    ELSE IF b.cap = 0
    THEN [full |-> full, nonfull |-> nonfull, ref |-> EmptyRef(b.align),
          n |-> 0]
    ELSE LET r == AddOwnedResult(full, nonfull,
                      [base |-> b.base, cap |-> b.dcap, data |-> b.data])
         IN  [full |-> r.full, nonfull |-> r.nonfull,
              ref |-> [some |-> TRUE, addr |-> r.ref.addr + b.start,
                       bytes |-> SubSeq(r.ref.bytes, b.start + 1,
                                        b.start + b.len * b.size)],
              n |-> b.len]

BuilderNew(t, dbg) ==
    /\ pc = "api"
    /\ sb.state = "none"
    /\ sb' = new(t, dbg)
    /\ last' = Call("builder", <<>>, t.align, 0, 0, None)
    /\ UNCHANGED <<full_buffers, nonfull_buffers, steps, pc, out, handles,
                   variant, ret, lock, th>>

BuilderReserve(additional, d) ==
    /\ pc = "api"
    /\ sb.state = "open"
    /\ sb' = reserve(sb, additional, SlotBase(NumBufs, d))
    /\ last' = Call("reserve", <<>>, sb.align, additional, sb'.base, None)
    /\ UNCHANGED <<full_buffers, nonfull_buffers, steps, pc, out, handles,
                   variant, ret, lock, th>>

\* last keeps the element, start as it was before the call and the base
\* address of the Vec after it
BuilderPush(value, d) ==
    /\ pc = "api"
    /\ sb.state = "open"
    /\ sb.len < MaxElems
    /\ sb' = push(sb, value, SlotBase(NumBufs, d))
    /\ last' = Call("push", value, sb.align, sb.start, sb'.base, None)
    /\ UNCHANGED <<full_buffers, nonfull_buffers, steps, pc, out, handles,
                   variant, ret, lock, th>>

\* a slice of n elements of the builder's type exists: at most isize::MAX
\* bytes, any length for a zero-sized type
BuilderExtend(n, d) ==
    /\ pc = "api"
    /\ sb.state = "open"
    /\ sb.size # 0 => n <= IsizeMax \div sb.size
    /\ sb' = extend_from_slice(sb, n, SlotBase(NumBufs, d))
    /\ last' = Call("extend_from_slice", <<>>, sb.align, n, sb'.base, None)
    /\ UNCHANGED <<full_buffers, nonfull_buffers, steps, pc, out, handles,
                   variant, ret, lock, th>>

BuilderPop ==
    /\ pc = "api"
    /\ sb.state = "open"
    /\ sb' = pop(sb)
    /\ last' = Call("pop", sb'.popped.value, sb.align, 0, sb.base, None)
    /\ UNCHANGED <<full_buffers, nonfull_buffers, steps, pc, out, handles,
                   variant, ret, lock, th>>

BuilderFinalize ==
    /\ pc = "api"
    /\ sb.state = "open"
    /\ LET r == finalize(full_buffers, nonfull_buffers, sb)
       IN  /\ full_buffers' = r.full
           /\ nonfull_buffers' = r.nonfull
           /\ last' = Call("finalize", r.ref.bytes, sb.align, r.n, sb.base,
                           r.ref)
    /\ sb' = [sb EXCEPT !.state = "final", !.data = <<>>, !.dcap = 0]
    /\ UNCHANGED <<steps, pc, out, handles, variant, ret, lock, th>>

NextBuilder ==
    \/ \E t \in ElemTypes, dbg \in BOOLEAN : BuilderNew(t, dbg)
    \/ \E a \in ReserveAdds, d \in BaseDeltas : BuilderReserve(a, d)
    \/ \E n \in SliceLens, d \in BaseDeltas : BuilderExtend(n, d)
    \/ \E d \in BaseDeltas : \E e \in Elems(sb.size) : BuilderPush(e, d)
    \/ BuilderPop
    \/ BuilderFinalize

SpecBuilder == Init /\ [][NextBuilder]_vars

-----------------------------------------------------------------------------
(* The shared variant used from several threads, sync.rs and util.rs.     *)
(* lock is the RwLock around the DataInternerInner: the thread holding    *)
(* the write guard (0 if none), the threads holding read guards, the      *)
(* poison flag of std's lock, broken (a guard holder has panicked) and    *)
(* the parking_lot feature of the build.  th[t] is the call thread t is   *)
(* in: its position pc, the operation and its arguments, the bytes it has *)
(* written behind a buffer's len and not yet committed by set_len, and    *)
(* what the call returned; peers are the threads whose present call      *)
(* overlaps it in time, n flips with every call.                          *)

NumThreads == 2

Threads == 1..NumThreads

\* number of calls the threads and the owner make in one behaviour
MaxCalls == 2

SyncOps == {"find", "add", "find_or_add", "add_owned"}

SyncInputs ==
    { [value |-> <<>>, align |-> 1, cap |-> 0],
      [value |-> <<2, 1, 1>>, align |-> 1, cap |-> 3],
      [value |-> <<1, 1>>, align |-> 1, cap |-> 4],
      [value |-> <<1, 1>>, align |-> 2, cap |-> 4] }

Idle ==
    [pc |-> "idle", op |-> "none", value |-> <<>>, align |-> 1, cap |-> 0,
     d |-> 0, inflight |-> <<>>, appended |-> FALSE, kind |-> "none",
     res |-> None, peers |-> {}, n |-> 0]

\* the pool when the interner is shared with the threads: empty, after
\* add_bytes(&[2, 1, 1]), or after add_owned_bytes(vec![2, 1, 1])
SyncPools ==
    { [full |-> <<>>, nonfull |-> <<>>, ref |-> None],
      add_bytes_with_align(<<>>, <<>>, <<2, 1, 1>>, 1, SlotBase(0, 0)),
      add_owned_bytes(<<>>, <<>>,
          [base |-> SlotBase(0, 0), cap |-> 3, data |-> <<2, 1, 1>>]) }

InitSync ==
    /\ \E p \in SyncPools :
           /\ full_buffers = p.full
           /\ nonfull_buffers = p.nonfull
    /\ last = Call("new", <<>>, 1, 0, 0, None)
    /\ steps = 0
    /\ pc = "api"
    /\ out = <<>>
    /\ handles = [strong |-> 1, weak |-> 0]
    /\ variant = "sync"
    /\ ret = NoRet
    /\ sb = NoBuilder
    /\ \E p \in BOOLEAN :
           lock = [writer |-> 0, readers |-> {}, poisoned |-> FALSE,
                   broken |-> FALSE, parking_lot |-> p]
    /\ th = [t \in Threads |-> Idle]

\* does the call return before it touches the lock
ReturnsEarly(op, in) ==
    IF op = "add_owned" THEN in.cap = 0 ELSE in.value = <<>>

\* mutant: a read guard is handed out while the write guard is out
read_ok_during_write(l) == TRUE

\* RwLock::read blocks while a write guard is out
read_ok(l) == l.writer = 0

\* mutant: a write guard is handed out while read guards are out
write_ok_among_readers(l) == l.writer = 0

\* RwLock::write blocks while any guard is out
write_ok(l) == l.writer = 0 /\ l.readers = {}

\* mutant: the poison error is dropped instead of unwrapped
poison_ignored(l) == FALSE

\* .unwrap() of the LockResult: std's lock reports a panicked writer,
\* parking_lot's lock has no poisoning
poison_panics(l) == ~l.parking_lot /\ l.poisoned

\* a thread calls an operation; an empty value (a vector without capacity)
\* returns the empty slice at once
Start(t, op, in) ==
    /\ pc = "api"
    /\ variant = "sync"
    /\ th[t].pc = "idle"
    /\ steps < MaxCalls
    /\ op = "add_owned" => in.align = 1
    /\ LET early == ReturnsEarly(op, in)
           running == { u \in Threads \ {t} :
                          th[u].pc \notin {"idle", "dead"} }
           call == [Idle EXCEPT !.op = op, !.value = in.value,
                                !.align = in.align, !.cap = in.cap,
                                !.n = 1 - th[t].n]
       IN  th' = [u \in Threads |->
                    IF u # t
                    THEN [th[u] EXCEPT !.peers =
                             IF ~early /\ u \in running
                             THEN @ \cup {t} ELSE @ \ {t}]
                    ELSE IF early
                    THEN [call EXCEPT !.kind = "ok",
                                      !.res = EmptyRef(in.align)]
                    ELSE [call EXCEPT !.pc = IF op = "find" THEN "want_r"
                                             ELSE "want_w",
                                      !.peers = running]]
    /\ steps' = steps + 1
    /\ UNCHANGED <<full_buffers, nonfull_buffers, last, pc, out, handles,
                   variant, ret, sb, lock>>

\* self.inner.read()
AcquireRead(t) ==
    /\ th[t].pc = "want_r"
    /\ read_ok(lock)
    /\ IF poison_panics(lock)
       THEN /\ th' = [th EXCEPT ![t].pc = "dead", ![t].kind = "panic"]
            /\ lock' = lock
       ELSE /\ th' = [th EXCEPT ![t].pc = "reading"]
            /\ lock' = [lock EXCEPT !.readers = @ \cup {t}]
    /\ UNCHANGED <<full_buffers, nonfull_buffers, last, steps, pc, out,
                   handles, variant, ret, sb>>

\* this.find_bytes(value) under the read guard, and the guard's drop
ReadFind(t) ==
    /\ th[t].pc = "reading"
    /\ th' = [th EXCEPT ![t].pc = "idle", ![t].kind = "ok",
                        ![t].res = find_bytes_with_align(full_buffers,
                                       nonfull_buffers, th[t].value,
                                       th[t].align)]
    /\ lock' = [lock EXCEPT !.readers = @ \ {t}]
    /\ UNCHANGED <<full_buffers, nonfull_buffers, last, steps, pc, out,
                   handles, variant, ret, sb>>

\* self.inner.write()
AcquireWrite(t) ==
    /\ th[t].pc = "want_w"
    /\ write_ok(lock)
    /\ IF poison_panics(lock)
       THEN /\ th' = [th EXCEPT ![t].pc = "dead", ![t].kind = "panic"]
            /\ lock' = lock
       ELSE /\ th' = [th EXCEPT ![t].pc = "w_locked"]
            /\ lock' = [lock EXCEPT !.writer = t]
    /\ UNCHANGED <<full_buffers, nonfull_buffers, last, steps, pc, out,
                   handles, variant, ret, sb>>

\* the find step of find_or_add_bytes_with_align, under the write guard
WriteFind(t) ==
    /\ th[t].pc = "w_locked"
    /\ th[t].op = "find_or_add"
    /\ LET found == find_bytes_with_align(full_buffers, nonfull_buffers,
                                          th[t].value, th[t].align)
       IN  th' = [th EXCEPT ![t].pc = IF found.some THEN "w_done"
                                      ELSE "w_add",
                            ![t].res = found]
    /\ UNCHANGED <<full_buffers, nonfull_buffers, last, steps, pc, out,
                   handles, variant, ret, sb, lock>>

\* add_bytes under the write guard starts with the add step
WriteEnter(t) ==
    /\ th[t].pc = "w_locked"
    /\ th[t].op = "add"
    /\ th' = [th EXCEPT ![t].pc = "w_add"]
    /\ UNCHANGED <<full_buffers, nonfull_buffers, last, steps, pc, out,
                   handles, variant, ret, sb, lock>>

\* add_bytes_with_align up to set_len: write_bytes of the filler and
\* copy_nonoverlapping of the value, behind the len of the chosen buffer
WriteBytes(t, d) ==
    /\ th[t].pc = "w_add"
    /\ LET i == FirstFit(nonfull_buffers, th[t].value, th[t].align)
           at == IF i # 0
                 THEN nonfull_buffers[i].base + Len(nonfull_buffers[i].data)
                 ELSE SlotBase(NumBufs, d)
           fill_len == IF i = 0 /\ th[t].align = 1 THEN 0
                       ELSE align_offset(th[t].align, at)
       IN  /\ i # 0 => d = 0
           /\ i = 0 => NumBufs < MaxBufs
           /\ th' = [th EXCEPT ![t].pc = "w_written", ![t].d = d,
                               ![t].inflight = Rep(fill_len, FillByte)
                                                   \o th[t].value]
    /\ UNCHANGED <<full_buffers, nonfull_buffers, last, steps, pc, out,
                   handles, variant, ret, sb, lock>>

\* Vec::with_capacity((value.len() + align - 1).max(1024)) panics with
\* "capacity overflow"; the write guard is dropped by the unwinding, which
\* poisons std's lock
WritePanic(t) ==
    /\ th[t].pc = "w_add"
    /\ th[t].align > 1
    /\ FirstFit(nonfull_buffers, th[t].value, th[t].align) = 0
    /\ th' = [th EXCEPT ![t].pc = "dead", ![t].kind = "panic"]
    /\ lock' = [lock EXCEPT !.writer = 0, !.broken = TRUE,
                            !.poisoned = ~lock.parking_lot]
    /\ UNCHANGED <<full_buffers, nonfull_buffers, last, steps, pc, out,
                   handles, variant, ret, sb>>

\* set_len, the move of a filled buffer to full_buffers or the push of the
\* new buffer, and the returned slice
WriteCommit(t) ==
    /\ th[t].pc = "w_written"
    /\ LET r == add_bytes_with_align(full_buffers, nonfull_buffers,
                    th[t].value, th[t].align, SlotBase(NumBufs, th[t].d))
       IN  /\ full_buffers' = r.full
           /\ nonfull_buffers' = r.nonfull
           /\ th' = [th EXCEPT ![t].pc = "w_done", ![t].inflight = <<>>,
                               ![t].appended = TRUE, ![t].res = r.ref]
    /\ UNCHANGED <<last, steps, pc, out, handles, variant, ret, sb, lock>>

\* this.add_owned_bytes(value) under the write guard
WriteOwned(t, d) ==
    /\ th[t].pc = "w_locked"
    /\ th[t].op = "add_owned"
    /\ NumBufs < MaxBufs
    /\ LET r == add_owned_bytes(full_buffers, nonfull_buffers,
                    [base |-> SlotBase(NumBufs, d), cap |-> th[t].cap,
                     data |-> th[t].value])
       IN  /\ full_buffers' = r.full
           /\ nonfull_buffers' = r.nonfull
           /\ th' = [th EXCEPT ![t].pc = "w_done", ![t].d = d,
                               ![t].appended = TRUE, ![t].res = r.ref]
    /\ UNCHANGED <<last, steps, pc, out, handles, variant, ret, sb, lock>>

\* mutant: the call returns with the write guard leaked (mem::forget)
ReleaseWriteLeaked(t) ==
    /\ th[t].pc = "w_done"
    /\ th' = [th EXCEPT ![t].pc = "idle", ![t].kind = "ok"]
    /\ lock' = lock
    /\ UNCHANGED <<full_buffers, nonfull_buffers, last, steps, pc, out,
                   handles, variant, ret, sb>>

\* the write guard is dropped when the call returns
ReleaseWrite(t) ==
    /\ th[t].pc = "w_done"
    /\ th' = [th EXCEPT ![t].pc = "idle", ![t].kind = "ok"]
    /\ lock' = [lock EXCEPT !.writer = 0]
    /\ UNCHANGED <<full_buffers, nonfull_buffers, last, steps, pc, out,
                   handles, variant, ret, sb>>

\* &mut self or self: no thread is inside a call
Exclusive == \A t \in Threads : th[t].pc \in {"idle", "dead"}

\* DataInterner::clear / try_clear: self.inner.get_mut()
SyncClear ==
    /\ pc = "api"
    /\ variant = "sync"
    /\ Exclusive
    /\ steps < MaxCalls
    /\ IF poison_panics(lock)
       THEN /\ ret' = Unit("panic")
            /\ UNCHANGED <<full_buffers, nonfull_buffers>>
       ELSE /\ ret' = Unit("ok")
            /\ LET r == clear(full_buffers, nonfull_buffers)
               IN  /\ full_buffers' = r.full
                   /\ nonfull_buffers' = r.nonfull
    /\ last' = Call("clear", <<>>, 1, 0, 0, None)
    /\ steps' = steps + 1
    /\ UNCHANGED <<pc, out, handles, variant, sb, lock, th>>

\* DataInterner::into_unsync: self.inner.into_inner()
SyncIntoUnsync ==
    /\ pc = "api"
    /\ variant = "sync"
    /\ Exclusive
    /\ steps < MaxCalls
    /\ IF poison_panics(lock)
       THEN /\ ret' = Unit("panic")
            /\ variant' = "dropped"
            /\ UNCHANGED <<full_buffers, nonfull_buffers>>
       ELSE /\ ret' = Unit("ok")
            /\ variant' = "unsync"
            /\ LET r == into_unsync(full_buffers, nonfull_buffers)
               IN  /\ full_buffers' = r.full
                   /\ nonfull_buffers' = r.nonfull
    /\ last' = Call("into_unsync", <<>>, 1, 0, 0, None)
    /\ steps' = steps + 1
    /\ UNCHANGED <<pc, out, handles, sb, lock, th>>

NextSync ==
    \/ \E t \in Threads, op \in SyncOps, in \in SyncInputs : Start(t, op, in)
    \/ \E t \in Threads : AcquireRead(t)
    \/ \E t \in Threads : ReadFind(t)
    \/ \E t \in Threads : AcquireWrite(t)
    \/ \E t \in Threads : WriteFind(t)
    \/ \E t \in Threads : WriteEnter(t)
    \/ \E t \in Threads, d \in BaseDeltas : WriteBytes(t, d)
    \/ \E t \in Threads : WritePanic(t)
    \/ \E t \in Threads : WriteCommit(t)
    \/ \E t \in Threads, d \in BaseDeltas : WriteOwned(t, d)
    \/ \E t \in Threads : ReleaseWrite(t)
    \/ SyncClear
    \/ SyncIntoUnsync

SpecSync == InitSync /\ [][NextSync]_vars

\* the calls that are inside add, find_or_add or add_owned
Writers == { u \in Threads : th[u].pc \notin {"idle", "dead"}
                               /\ th[u].op # "find" }

\* Start of a call for which the allocator still has a buffer to hand out
\* when every call under way takes one
StartWithRoom(t, op, in) ==
    /\ (op # "find" /\ ~ReturnsEarly(op, in)) =>
           NumBufs + Cardinality(Writers) < MaxBufs
    /\ Start(t, op, in)

NextSyncLive ==
    \/ \E t \in Threads, op \in SyncOps, in \in SyncInputs :
           StartWithRoom(t, op, in)
    \/ \E t \in Threads : AcquireRead(t)
    \/ \E t \in Threads : ReadFind(t)
    \/ \E t \in Threads : AcquireWrite(t)
    \/ \E t \in Threads : WriteFind(t)
    \/ \E t \in Threads : WriteEnter(t)
    \/ \E t \in Threads, d \in BaseDeltas : WriteBytes(t, d)
    \/ \E t \in Threads : WritePanic(t)
    \/ \E t \in Threads : WriteCommit(t)
    \/ \E t \in Threads, d \in BaseDeltas : WriteOwned(t, d)
    \/ \E t \in Threads : ReleaseWrite(t)

\* a fair lock hands the guard to a thread that keeps asking for it; a
\* thread inside a section keeps running until it drops the guard
FairSync ==
    \A t \in Threads :
        /\ SF_vars(AcquireRead(t))
        /\ SF_vars(AcquireWrite(t))
        /\ WF_vars(ReadFind(t))
        /\ WF_vars(WriteFind(t))
        /\ WF_vars(WriteEnter(t))
        /\ WF_vars(\E d \in BaseDeltas : WriteBytes(t, d))
        /\ WF_vars(WriteCommit(t))
        /\ WF_vars(\E d \in BaseDeltas : WriteOwned(t, d))
        /\ WF_vars(ReleaseWrite(t))

SpecSyncLive == InitSync /\ [][NextSyncLive]_vars /\ FairSync

-----------------------------------------------------------------------------
(* Properties *)

\* the set of buffers of a pool
BufSet(full, nonfull) ==
    { full[i] : i \in 1..Len(full) } \cup { nonfull[i] : i \in 1..Len(nonfull) }

Bufs == BufSet(full_buffers, nonfull_buffers)

\* value occurs as a contiguous run in the committed bytes of buf
OccursIn(buf, value) ==
    \E i \in 0..(Len(buf.data) - Len(value)) :
        SubSeq(buf.data, i + 1, i + Len(value)) = value

\* the reference r lies inside the committed bytes of buf
RefInside(r, buf) ==
    /\ buf.base <= r.addr
    /\ r.addr + Len(r.bytes) <= buf.base + Len(buf.data)

\* C1: address stability.  In every step other than clear, each buffer of
\* the pool is still in the pool afterwards with the same base address and
\* capacity, and its committed bytes are a prefix of its bytes afterwards:
\* every reference into committed bytes keeps its buffer, address and bytes.
C1_AddressStability ==
    [][ last'.op # "clear" =>
          \A b \in Bufs :
            \E c \in BufSet(full_buffers', nonfull_buffers') :
                /\ c.base = b.base
                /\ c.cap = b.cap
                /\ Len(c.data) >= Len(b.data)
                /\ SubSeq(c.data, 1, Len(b.data)) = b.data ]_vars

\* C1 witness: an add appended after committed bytes of a buffer and made
\* it full, so the buffer moved from nonfull_buffers to full_buffers.
C1_Witness ==
    /\ last.op \in {"add", "find_or_add"}
    /\ last.value # <<>>
    /\ \E i \in 1..Len(full_buffers) :
          /\ full_buffers[i].base < last.res.addr
          /\ last.res.addr + Len(last.value)
                = full_buffers[i].base + full_buffers[i].cap

\* C2 (as claimed): two consecutive find_or_add_bytes(v) calls return
\* references that are byte-equal to v and start at the same address.
C2_FindOrAddTwiceSameAddress ==
    [][ ( /\ last.op = "find_or_add"
          /\ last'.op = "find_or_add"
          /\ steps' = steps + 1
          /\ last'.value = last.value
          /\ last.align = 1
          /\ last'.align = 1 )
        => ( /\ last.res.bytes = last.value
             /\ last'.res.bytes = last.value
             /\ last'.res.addr = last.res.addr ) ]_vars

\* C3: the reference returned by add and by find_or_add, and the one inside
\* a Some returned by find, has the bytes of the requested value (and so
\* its length).
C3_ReturnedBytesEqualValue ==
    /\ last.op \in {"add", "find_or_add"} =>
          last.res.some /\ last.res.bytes = last.value
    /\ last.op = "find" /\ last.res.some => last.res.bytes = last.value

\* C3 witness: an add at alignment > 1 that had to write filler first; the
\* byte before the returned reference is a filler byte of the same buffer.
C3_Witness ==
    /\ last.op = "add"
    /\ last.align > 1
    /\ last.res.bytes = last.value
    /\ \E b \in Bufs :
          /\ RefInside(last.res, b)
          /\ b.base < last.res.addr
          /\ b.data[last.res.addr - b.base] = FillByte

\* C4: find_bytes of a non-empty value returns Some exactly when the value
\* is a contiguous run of the committed bytes of one single buffer.
C4_FindIffRunInOneBuffer ==
    (last.op = "find" /\ last.align = 1 /\ last.value # <<>>) =>
        (last.res.some <=> \E b \in Bufs : OccursIn(b, last.value))

\* C4 witness: find_bytes returned a run that starts inside a nonfull
\* buffer, past its first byte, while another buffer of the pool does not
\* contain the value.
C4_Witness ==
    /\ last.op = "find"
    /\ last.align = 1
    /\ last.value # <<>>
    /\ last.res.some
    /\ \E b \in Bufs : ~OccursIn(b, last.value)
    /\ \E i \in 1..Len(nonfull_buffers) :
          /\ RefInside(last.res, nonfull_buffers[i])
          /\ nonfull_buffers[i].base < last.res.addr

\* C5 (as claimed): a find_slice that immediately follows an add_slice of
\* the same non-empty value at the same alignment returns Some.
C5_FindAfterAddIsSome ==
    [][ ( /\ last.op = "add"
          /\ last'.op = "find"
          /\ last.value # <<>>
          /\ last'.value = last.value
          /\ last'.align = last.align )
        => last'.res.some ]_vars

\* C6: every reference returned by find, add or find_or_add at alignment
\* align starts at a multiple of align.
C6_ReturnedAddressAligned ==
    (last.op \in {"find", "add", "find_or_add"} /\ last.res.some) =>
        last.res.addr % last.align = 0

\* C6 witness: an add at alignment 16 into a buffer whose base address is
\* not a multiple of 16.
C6_Witness ==
    /\ last.op = "add"
    /\ last.align = 16
    /\ last.value # <<>>
    /\ last.res.addr % 16 = 0
    /\ \E b \in Bufs : RefInside(last.res, b) /\ b.base % 16 # 0

\* C7 (as claimed): at the end of main, w and x are the two texts, y is
\* Some at the address of w, and z, the find of "Hello, world!Lorem", is
\* None.
C7_MainHelloLoremNotFound ==
    pc = "main_done" =>
        /\ out[1].bytes = Hello
        /\ out[2].bytes = Lorem
        /\ out[3].some /\ out[3].addr = out[1].addr
        /\ ~out[4].some

\* C7 (amended): at the end of main, w and x are the two texts, y is Some
\* at the address of w, and z is Some as well, at the address of w: the
\* second text was appended right behind the first in the same buffer.
C7_MainHelloLoremFound ==
    pc = "main_done" =>
        /\ out[1].bytes = Hello
        /\ out[2].bytes = Lorem
        /\ out[3].some /\ out[3].addr = out[1].addr
        /\ out[4].some /\ out[4].addr = out[1].addr
        /\ out[4].bytes = HelloLorem
        /\ out[2].addr = out[1].addr + Len(Hello)

\* C7 witness: main has made its four calls.
C7_Witness ==
    /\ pc = "main_done"
    /\ Len(out) = 4
    /\ Len(nonfull_buffers) = 1
    /\ nonfull_buffers[1].data = Hello \o Lorem

\* C8: add_owned_bytes of a vector with capacity > 0 returns a reference
\* that starts at the vector's own address and covers its len bytes; the
\* vector is the newest buffer of full_buffers if len = capacity, else the
\* newest buffer of nonfull_buffers, with its capacity unchanged.
C8_AddOwnedZeroCopy ==
    (last.op = "add_owned" /\ last.cap > 0) =>
        LET vec == [base |-> last.base, cap |-> last.cap, data |-> last.value]
        IN  /\ last.res.some
            /\ last.res.addr = last.base
            /\ last.res.bytes = last.value
            /\ Len(last.value) = last.cap =>
                  /\ Len(full_buffers) > 0
                  /\ full_buffers[Len(full_buffers)] = vec
                  /\ \A i \in 1..Len(nonfull_buffers) :
                        nonfull_buffers[i].base # last.base
            /\ Len(last.value) < last.cap =>
                  /\ Len(nonfull_buffers) > 0
                  /\ nonfull_buffers[Len(nonfull_buffers)] = vec
                  /\ \A i \in 1..Len(full_buffers) :
                        full_buffers[i].base # last.base

\* C8 witness: a vector with len = capacity > 0 was absorbed into a pool
\* that already held another buffer.
C8_Witness ==
    /\ last.op = "add_owned"
    /\ last.cap > 0
    /\ Len(last.value) = last.cap
    /\ NumBufs = 2
    /\ last.res.addr = last.base

\* C9: a find of a non-empty value that immediately follows clear returns
\* None.
C9_FindAfterClearIsNone ==
    [][ (last.op = "clear" /\ last'.op = "find" /\ last'.value # <<>>)
        => ~last'.res.some ]_vars

\* C9 witness: find returned None on a pool that holds a buffer allocated
\* by an earlier add (so the value was stored) whose length is 0 again.
C9_Witness ==
    /\ last.op = "find"
    /\ last.value # <<>>
    /\ ~last.res.some
    /\ \E b \in Bufs : b.cap = MinBufCap /\ b.data = <<>>

\* C10: find, add and find_or_add of an empty value return an empty
\* reference (Some for find) and leave both buffer collections unchanged.
C10_EmptyValueNoEffect ==
    [][ (last'.op \in {"find", "add", "find_or_add"} /\ last'.value = <<>>)
        => ( /\ last'.res.some
             /\ last'.res.bytes = <<>>
             /\ full_buffers' = full_buffers
             /\ nonfull_buffers' = nonfull_buffers ) ]_vars

\* C10 witness: add of an empty value on the empty pool.
C10_Witness ==
    /\ last.op = "add"
    /\ last.value = <<>>
    /\ last.res.some
    /\ NumBufs = 0


\* C17: try_add_owned of a vector with capacity > 0 whose element type has
\* non-zero size and alignment > 1 returns Err with the very vector it was
\* given (same allocation, capacity and bytes) and leaves the pool as it
\* was; with element alignment 1 it returns Ok with a slice at the vector's
\* own address, and the vector's bytes are found by a later find.
C17_TryAddOwnedRecoverable ==
    [][(last'.op = "try_add_owned" /\ steps' = steps + 1) =>
        \A v \in TypedVecs :
            (/\ v.size # 0 /\ v.cap > 0
             /\ last'.value = v.data /\ last'.align = v.align
             /\ last'.cap = v.cap * v.size) =>
                IF v.align > 1
                THEN /\ ~last'.res.some
                     /\ ret' = [kind |-> "vec", base |-> last'.base,
                                cap |-> v.cap, data |-> v.data]
                     /\ full_buffers' = full_buffers
                     /\ nonfull_buffers' = nonfull_buffers
                ELSE /\ last'.res.some
                     /\ last'.res.addr = last'.base
                     /\ last'.res.bytes = v.data
                     /\ ret' = NoRet
                     /\ FindResult(full_buffers', nonfull_buffers',
                                   v.data, 1).some]_vars

C17_Witness ==
    /\ last.op = "try_add_owned"
    /\ last.align > 1
    /\ last.cap > 0
    /\ ~last.res.some
    /\ ret.kind = "vec"
    /\ ret.data = last.value
    /\ NumBufs > 0

\* C18: try_clear through an Rc returns Err(()) and leaves every buffer,
\* length and byte of the pool as it was whenever another Rc or Weak to the
\* same interner exists; it returns Ok(()) exactly when the handle is the
\* only one, and then no buffer holds a byte any more.
C18_TryClearNeedsUniqueOwner ==
    [][(last'.op = "try_clear" /\ steps' = steps + 1) =>
        IF handles.strong + handles.weak > 1
        THEN /\ ret' = Unit("err")
             /\ full_buffers' = full_buffers
             /\ nonfull_buffers' = nonfull_buffers
        ELSE /\ ret' = Unit("ok")
             /\ full_buffers' = <<>>
             /\ Len(nonfull_buffers') = NumBufs
             /\ \A i \in 1..Len(nonfull_buffers') :
                    nonfull_buffers'[i].data = <<>>]_vars

C18_Witness ==
    /\ last.op = "try_clear"
    /\ ret = Unit("err")
    /\ handles.strong + handles.weak > 1
    /\ \E b \in Bufs : b.data # <<>>

\* C20: into_unsync hands the same full and nonfull buffers, with the same
\* contents, to the unsync wrapper, so find of any value on the converted
\* interner is Some exactly when find of it on the shared one was.
C20_IntoUnsyncPreservesPool ==
    [][(variant = "sync" /\ variant' = "unsync") =>
        /\ full_buffers' = full_buffers
        /\ nonfull_buffers' = nonfull_buffers
        /\ \A in \in Inputs :
               unsync_find(full_buffers', nonfull_buffers', in.value,
                           in.align).some
               <=> FindResult(full_buffers, nonfull_buffers, in.value,
                              in.align).some]_vars

C20_Witness ==
    /\ variant = "unsync"
    /\ last.op = "find"
    /\ last.value # <<>>
    /\ last.res.some
    /\ full_buffers # <<>>
    /\ nonfull_buffers # <<>>


\* C11: for element types of size 0, of size 1 and of a larger size with a
\* larger alignment, finalize returns a slice of exactly as many elements as
\* were pushed, byte-for-byte equal to them in push order, however often the
\* builder's Vec grew or moved; no write of the builder leaves its Vec.
C11_BuilderRoundTrip ==
    /\ sb.state # "ub"
    /\ (sb.state = "final" /\ last.op = "finalize") =>
           /\ last.cap = Len(sb.pushed)
           /\ Len(last.res.bytes) = last.cap * sb.size
           /\ ElemsOf(last.res.bytes, sb.size, last.cap) = sb.pushed

C11_Witness ==
    /\ sb.state = "final"
    /\ last.op = "finalize"
    /\ sb.size = 16
    /\ Len(sb.pushed) = MaxElems
    /\ sb.pushed[1] # sb.pushed[2]
    /\ last.res.addr = last.base + 8
    /\ \E b \in Bufs : RefInside(last.res, b)

\* C12: while a builder is open, its len and the slice it dereferences to
\* are the elements pushed and not yet popped, in push order; pop returns
\* the last of them, and pop on an empty builder returns None and changes
\* no field of the builder.
C12_PushPopStackLaw ==
    [][/\ sb'.state = "open" =>
              /\ sb'.len = Len(sb'.pushed)
              /\ deref(sb') = sb'.pushed
       /\ (last'.op = "pop" /\ sb.state = "open") =>
              IF sb.pushed = <<>>
              THEN /\ ~sb'.popped.some
                   /\ [sb' EXCEPT !.popped = sb.popped] = sb
              ELSE /\ sb'.popped.some
                   /\ sb'.popped.value = sb.pushed[Len(sb.pushed)]
                   /\ sb'.pushed = SubSeq(sb.pushed, 1, Len(sb.pushed) - 1)]_vars

C12_Witness ==
    /\ sb.state = "open"
    /\ last.op = "pop"
    /\ sb.popped.some
    /\ sb.size = 16
    /\ sb.start = 8
    /\ Len(sb.pushed) = 2
    /\ sb.popped.value # sb.pushed[2]

\* C13: for a builder with a non-zero element size, in any state and also
\* with len < cap, after reserve(additional) returns the element capacity is
\* at least len + additional.
C13_ReserveReachesRequested ==
    [][(/\ last'.op = "reserve"
        /\ sb.state = "open"
        /\ sb.size # 0
        /\ sb'.state = "open") =>
            sb'.cap >= sb.len + last'.cap]_vars


\* C14: when the find_or_add calls of two threads overlap in time and have
\* the same non-empty value (and alignment), at most one of the two calls
\* appends bytes to the pool.
C14_OneOfTwoFindOrAddAppends ==
    \A t1 \in Threads : \A t2 \in th[t1].peers :
        (/\ th[t1].op = "find_or_add"
         /\ th[t2].op = "find_or_add"
         /\ th[t1].value # <<>>
         /\ th[t1].value = th[t2].value
         /\ th[t1].align = th[t2].align) =>
            ~(th[t1].appended /\ th[t2].appended)

\* C15: whenever a thread holds the read guard, no thread has written bytes
\* behind the len of a buffer that set_len has not yet committed, and a
\* find that returns Some returns exactly the bytes of its value.
C15_NoPartialWriteSeen ==
    /\ lock.readers # {} =>
           \A w \in Threads : th[w].inflight = <<>> /\ th[w].pc # "w_written"
    /\ \A t \in Threads :
           (th[t].op = "find" /\ th[t].kind = "ok" /\ th[t].res.some) =>
               th[t].res.bytes = th[t].value

C15_Witness ==
    \E r \in Threads, w \in Threads :
        /\ th[r].pc = "reading"
        /\ th[r].value # <<>>
        /\ th[w].pc = "want_w"
        /\ th[w].op = "add"
        /\ \E b \in Bufs : b.data # <<>>

\* the positions of a thread that holds the write guard
WritePcs == {"w_locked", "w_add", "w_written", "w_done"}

\* C16: a thread is inside a read section only in find and holds only the
\* read guard there; add, find_or_add and add_owned are inside a section
\* only with the write guard; a thread with the write guard is never
\* inside together with another reader or writer; no step of a find
\* changes the pool.
C16_ReadersWritersExclusion ==
    [][/\ lock'.writer # 0 => lock'.readers = {}
       /\ \A t \in Threads :
              /\ th'[t].pc \in WritePcs <=> lock'.writer = t
              /\ th'[t].pc = "reading" <=> t \in lock'.readers
              /\ th'[t].pc = "reading" => th'[t].op = "find"
              /\ th'[t].pc \in WritePcs =>
                     th'[t].op \in {"add", "find_or_add", "add_owned"}
              /\ (th'[t].op = "find" /\ th'[t] # th[t]) =>
                     /\ full_buffers' = full_buffers
                     /\ nonfull_buffers' = nonfull_buffers]_vars

C16_Witness ==
    /\ lock.readers = Threads
    /\ lock.writer = 0
    /\ \A t \in Threads : th[t].pc = "reading" /\ th[t].value # <<>>
    /\ \E b \in Bufs : b.data # <<>>

\* a step in which thread t's call returns or panics
Completes(t) ==
    /\ th'[t].pc \in {"idle", "dead"}
    /\ th'[t].n # th[t].n \/ th'[t].pc # th[t].pc

\* a step of clear or into_unsync
OwnerStep == steps' # steps /\ th' = th

\* C19 as stated: once a guard holder has panicked inside its section,
\* every later find, add, find_or_add, add_owned, clear and into_unsync
\* panics.
C19_EveryLaterCallPanics ==
    [][lock.broken =>
           /\ \A t \in Threads : Completes(t) => th'[t].kind = "panic"
           /\ OwnerStep => ret' = Unit("panic")]_vars

\* C19 amended: with std's lock (no parking_lot feature) a writer that
\* panics inside its section poisons the lock, and then every later call
\* that reaches the lock panics: find, add and find_or_add of a non-empty
\* value, add_owned of a vector with capacity, clear and into_unsync, which
\* leave the pool as it is; a call with an empty value (a vector without
\* capacity) still returns the empty slice.  With the parking_lot feature
\* the lock is never poisoned.
C19_PoisonedLockPanics ==
    [][/\ lock.poisoned =>
              /\ \A t \in Threads : Completes(t) =>
                     IF ReturnsEarly(th'[t].op, th'[t])
                     THEN /\ th'[t].kind = "ok"
                          /\ th'[t].res = EmptyRef(th'[t].align)
                     ELSE th'[t].kind = "panic"
              /\ OwnerStep => ret' = Unit("panic")
              /\ full_buffers' = full_buffers
              /\ nonfull_buffers' = nonfull_buffers
       /\ lock'.poisoned <=> (lock'.broken /\ ~lock'.parking_lot)]_vars

C19_Witness ==
    /\ lock.poisoned
    /\ \E t \in Threads :
           th[t].op = "find" /\ th[t].value # <<>> /\ th[t].kind = "panic"
    /\ \E b \in Bufs : b.data # <<>>


\* C21: a find_or_add of a non-empty value that immediately follows a
\* find_or_add of the same value at the same alignment appends nothing and
\* leaves every buffer as it was.
C21_FindOrAddIdempotent ==
    [][(/\ last.op = "find_or_add"
        /\ last'.op = "find_or_add"
        /\ steps' = steps + 1
        /\ last.value # <<>>
        /\ last'.value = last.value
        /\ last'.align = last.align) =>
            /\ full_buffers' = full_buffers
            /\ nonfull_buffers' = nonfull_buffers]_vars

\* value occurs in the committed bytes of buf at an address that is a
\* multiple of align
AlignedOccursIn(buf, value, align) ==
    \E i \in 0..(Len(buf.data) - Len(value)) :
        /\ SubSeq(buf.data, i + 1, i + Len(value)) = value
        /\ (buf.base + i) % align = 0

\* C22: whenever some buffer of the pool holds an occurrence of the value
\* at an address that is a multiple of align, find returns Some, also when
\* an earlier occurrence in the same buffer is misaligned.
C22_FindReachesAlignedOccurrence ==
    (/\ last.op = "find"
     /\ last.value # <<>>
     /\ \E b \in Bufs : AlignedOccursIn(b, last.value, last.align)) =>
        last.res.some


\* C23: in every reachable state each buffer of full_buffers has len equal
\* to its capacity, each buffer of nonfull_buffers has len below its
\* capacity, and no buffer of the pool has capacity 0.
C23_PartitionInvariant ==
    /\ \A i \in 1..Len(full_buffers) :
           Len(full_buffers[i].data) = full_buffers[i].cap
    /\ \A i \in 1..Len(nonfull_buffers) :
           Len(nonfull_buffers[i].data) < nonfull_buffers[i].cap
    /\ \A b \in Bufs : b.cap > 0

\* C23 witness: an add filled an empty buffer of nonfull_buffers from its
\* first byte to its capacity, moving it to full_buffers, while another
\* buffer still has all its room.
C23_Witness ==
    /\ last.op = "add"
    /\ \E i \in 1..Len(full_buffers) :
           /\ RefInside(last.res, full_buffers[i])
           /\ last.res.addr = full_buffers[i].base
    /\ \E i \in 1..Len(nonfull_buffers) : nonfull_buffers[i].data = <<>>

\* the base addresses of a buffer collection
Bases(bufs) == { bufs[i].base : i \in 1..Len(bufs) }

\* C24: in every step but clear, full_buffers keeps its buffers with their
\* bytes and lengths; a buffer of nonfull_buffers enters full_buffers only
\* in an add or find_or_add that makes its len equal its capacity, with
\* the same base address and its earlier bytes in place, and it is then no
\* longer in nonfull_buffers; no buffer goes back from full_buffers.
C24_SpareToFullOnce ==
    [][last'.op # "clear" =>
        /\ Len(full_buffers') >= Len(full_buffers)
        /\ SubSeq(full_buffers', 1, Len(full_buffers)) = full_buffers
        /\ Bases(full_buffers') \cap Bases(nonfull_buffers') = {}
        /\ \A i \in 1..Len(nonfull_buffers) :
               LET b == nonfull_buffers[i]
               IN  b.base \in Bases(full_buffers') =>
                       /\ last'.op \in {"add", "find_or_add"}
                       /\ \E c \in BufSet(full_buffers', <<>>) :
                              /\ c.base = b.base
                              /\ c.cap = b.cap
                              /\ Len(c.data) = c.cap
                              /\ SubSeq(c.data, 1, Len(b.data)) = b.data]_vars

\* C24 witness: a find_or_add filled a buffer that already held bytes, and
\* the buffer is now in full_buffers behind an older full buffer.
C24_Witness ==
    /\ last.op = "find_or_add"
    /\ Len(full_buffers) = 2
    /\ RefInside(last.res, full_buffers[2])
    /\ full_buffers[2].base < last.res.addr


\* the least number of bytes that brings addr up to a multiple of align
Padding(align, addr) == (align - (addr % align)) % align

\* the nonfull buffer has room for value behind the padding its tail needs
HasRoom(buf, value, align) ==
    buf.cap - Len(buf.data) >=
        Padding(align, buf.base + Len(buf.data)) + Len(value)

\* C25: an add of a non-empty value writes it into the first buffer of
\* nonfull_buffers, in the collection's order, whose remaining capacity is
\* at least padding + |value|, the padding taken from that buffer's tail
\* address; a buffer is allocated if and only if no nonfull buffer has
\* that room.
C25_FirstFit ==
    [][(/\ last'.op = "add"
        /\ steps' = steps + 1
        /\ last'.value # <<>>) =>
            LET v == last'.value
                al == last'.align
                fits == { i \in 1..Len(nonfull_buffers) :
                              HasRoom(nonfull_buffers[i], v, al) }
                allocated == Bases(full_buffers') \cup Bases(nonfull_buffers')
                                 # Bases(full_buffers) \cup Bases(nonfull_buffers)
            IN  /\ allocated <=> fits = {}
                /\ fits # {} =>
                      LET m == CHOOSE i \in fits : \A j \in fits : i <= j
                          b == nonfull_buffers[m]
                      IN  /\ last'.res.addr = b.base + Len(b.data)
                                + Padding(al, b.base + Len(b.data))
                          /\ last'.res.bytes = v
                          /\ \A j \in fits \ {m} :
                                 nonfull_buffers[j] \in
                                     BufSet(<<>>, nonfull_buffers')]_vars

\* C25 witness: an add went into the first nonfull buffer although the
\* second one still has room for the same value.
C25_Witness ==
    /\ last.op = "add"
    /\ last.value # <<>>
    /\ Len(nonfull_buffers) = 2
    /\ RefInside(last.res, nonfull_buffers[1])
    /\ HasRoom(nonfull_buffers[2], last.value, last.align)


-----------------------------------------------------------------------------
(* Allocation of new buffers, inner.rs: values around the 1024-byte       *)
(* minimum, at base addresses of every alignment.  The layout of a        *)
(* Vec<u8> asks for alignment 1, so the allocator may return any address. *)

\* values just below, at and above the minimum capacity, and values whose
\* length plus align - 1 is at or above it
AllocInputs ==
    { [value |-> <<1>>, align |-> 1],
      [value |-> Rep(MinBufCap, 1), align |-> 1],
      [value |-> Rep(MinBufCap + 1, 1), align |-> 1],
      [value |-> <<1, 1>>, align |-> 2],
      [value |-> Rep(MinBufCap - 15, 1), align |-> 16],
      [value |-> Rep(MinBufCap - 4, 1), align |-> 16] }

\* the position of a new allocation inside its address slot
AllocOffsets == {0, 1, 15}

AllocBase(n, o) == (n + 1) * SlotSize + o

\* add_bytes / add_slice with the buffer, if one is needed, at AllocBase
AllocAdd(in, o) ==
    /\ pc = "api"
    /\ steps < MaxSteps
    /\ NeedsAlloc(in.value, in.align) => NumBufs < MaxBufs
    /\ LET r == AddResult(full_buffers, nonfull_buffers, in.value, in.align,
                          AllocBase(NumBufs, o))
       IN  /\ full_buffers' = r.full
           /\ nonfull_buffers' = r.nonfull
           /\ last' = Call("add", in.value, in.align, 0, 0, r.ref)
    /\ steps' = steps + 1
    /\ UNCHANGED <<pc, out, ext>>

NextAlloc ==
    \/ \E in \in AllocInputs, o \in AllocOffsets : AllocAdd(in, o)
    \/ Clear

SpecAlloc == Init /\ [][NextAlloc]_vars

\* C26: when an add of a non-empty value allocates, the new buffer has
\* capacity max(1024, |value| + align - 1), also for align 1; the value is
\* at the least aligned offset in it behind nothing but padding; and the
\* buffer is in full_buffers exactly when its len equals its capacity and
\* in nonfull_buffers otherwise.
C26_NewBufferCapacity ==
    [][(/\ last'.op = "add"
        /\ steps' = steps + 1
        /\ last'.value # <<>>) =>
            \A c \in BufSet(full_buffers', nonfull_buffers') :
                c.base \notin Bases(full_buffers) \cup Bases(nonfull_buffers) =>
                    LET v == last'.value
                        pad == Padding(last'.align, c.base)
                        want == IF Len(v) + last'.align - 1 > 1024
                                THEN Len(v) + last'.align - 1 ELSE 1024
                    IN  /\ c.cap = want
                        /\ last'.res.addr = c.base + pad
                        /\ last'.res.bytes = v
                        /\ Len(c.data) = pad + Len(v)
                        /\ c \in BufSet(full_buffers', <<>>)
                               <=> Len(c.data) = c.cap
                        /\ c \in BufSet(<<>>, nonfull_buffers')
                               <=> Len(c.data) < c.cap]_vars

\* C26 witness: an aligned add allocated a buffer in which the largest
\* padding and the value take up the whole capacity, so that the new
\* buffer went straight to full_buffers.
C26_Witness ==
    /\ last.op = "add"
    /\ last.align > 1
    /\ \E i \in 1..Len(full_buffers) :
           LET c == full_buffers[i]
           IN  /\ last.res.addr = c.base + last.align - 1
               /\ Len(c.data) = last.align - 1 + Len(last.value)
               /\ c.cap = MinBufCap


\* C27: add of a non-empty value appends unconditionally, also when the
\* value is already in the pool: exactly one buffer, an existing nonfull
\* buffer or one new buffer, grows by padding + |value| bytes with
\* 0 <= padding < align, its bytes below its previous length stay as they
\* were, and every other buffer is unchanged.
C27_AddAppendsMinimalFrame ==
    [][(/\ last'.op = "add"
        /\ steps' = steps + 1
        /\ last'.value # <<>>) =>
            LET v == last'.value
                before == Bufs
                after == BufSet(full_buffers', nonfull_buffers')
                grown == after \ before
            IN  /\ Cardinality(grown) = 1
                /\ Cardinality(after) \in
                       {Cardinality(before), Cardinality(before) + 1}
                /\ \A c \in grown :
                       LET olds == { b \in before : b.base = c.base }
                           old_len == IF olds = {} THEN 0
                                      ELSE Len((CHOOSE b \in olds : TRUE).data)
                           padding == Len(c.data) - old_len - Len(v)
                       IN  /\ padding \in 0..(last'.align - 1)
                           /\ \A b \in olds :
                                  /\ b \in BufSet(<<>>, nonfull_buffers)
                                  /\ b.cap = c.cap
                                  /\ SubSeq(c.data, 1, old_len) = b.data
                           /\ \A b \in before :
                                  b.base # c.base => b \in after]_vars

\* C27 witness: an add appended a value behind an aligned copy of the same
\* value that the buffer already held.
C27_Witness ==
    /\ last.op = "add"
    /\ last.value # <<>>
    /\ \E b \in Bufs :
           /\ RefInside(last.res, b)
           /\ \E i \in 0..Len(b.data) :
                  /\ i + Len(last.value) <= last.res.addr - b.base
                  /\ SubSeq(b.data, i + 1, i + Len(last.value)) = last.value
                  /\ (b.base + i) % last.align = 0


\* the allocations behind a set of buffers: base address and capacity
Allocations(bufs) == { <<b.base, b.cap>> : b \in bufs }

\* C28: clear deallocates nothing.  After it the pool holds the same
\* buffers, with the same base addresses and capacities, as before; every
\* buffer has len 0; full_buffers is empty; and every buffer that was in
\* full_buffers is in nonfull_buffers.
C28_ClearKeepsAllocations ==
    [][(last'.op = "clear" /\ steps' = steps + 1) =>
        /\ Allocations(BufSet(full_buffers', nonfull_buffers'))
               = Allocations(Bufs)
        /\ Len(full_buffers') + Len(nonfull_buffers') = NumBufs
        /\ \A c \in BufSet(full_buffers', nonfull_buffers') : c.data = <<>>
        /\ full_buffers' = <<>>
        /\ Allocations(BufSet(full_buffers, <<>>))
               \subseteq Allocations(BufSet(<<>>, nonfull_buffers'))]_vars

\* C28 witness: after a clear the earlier allocation stands behind the
\* later one in nonfull_buffers, where the drain of full_buffers put it.
C28_Witness ==
    /\ last.op = "clear"
    /\ full_buffers = <<>>
    /\ Len(nonfull_buffers) = 2
    /\ nonfull_buffers[2].base < nonfull_buffers[1].base


\* the offsets at which value occurs in the committed bytes of buf
Offsets(buf, value) ==
    { i \in 0..(Len(buf.data) - Len(value)) :
          SubSeq(buf.data, i + 1, i + Len(value)) = value }

\* C29: a find of a non-empty value at alignment 1 goes through
\* full_buffers in order and then nonfull_buffers in order, and returns the
\* occurrence at the lowest offset in the first buffer of that order that
\* holds the value; it returns None when no buffer holds it.
C29_FindScanOrder ==
    (/\ last.op = "find"
     /\ last.align = 1
     /\ last.value # <<>>) =>
        LET scan == full_buffers \o nonfull_buffers
            holders == { i \in 1..Len(scan) : Offsets(scan[i], last.value) # {} }
        IN  IF holders = {} THEN ~last.res.some
            ELSE LET first == CHOOSE i \in holders : \A j \in holders : i <= j
                     offs == Offsets(scan[first], last.value)
                     lowest == CHOOSE i \in offs : \A j \in offs : i <= j
                 IN  /\ last.res.some
                     /\ last.res.addr = scan[first].base + lowest
                     /\ last.res.bytes = last.value

\* C29 witness: the value is twice in the first full buffer and again in a
\* nonfull buffer, and find returned the lower of the two in the full one.
C29_Witness ==
    /\ last.op = "find"
    /\ last.align = 1
    /\ last.value # <<>>
    /\ full_buffers # <<>>
    /\ \E i \in 1..Len(nonfull_buffers) :
           Offsets(nonfull_buffers[i], last.value) # {}
    /\ Cardinality(Offsets(full_buffers[1], last.value)) >= 2
    /\ last.res.some
    /\ RefInside(last.res, full_buffers[1])


\* C30: in every reachable state every byte below a buffer's len has been
\* written: the gap in front of an aligned value holds the filler byte
\* when set_len commits it, so no committed byte is uninitialized.
C30_NoUninitCommitted ==
    \A b \in Bufs : \A i \in 1..Len(b.data) :
        /\ b.data[i] # Uninit
        /\ b.data[i] \in 0..255

\* C30 witness: an add put its value behind an alignment gap, and the
\* committed byte in front of the value is the filler.
C30_Witness ==
    /\ last.op = "add"
    /\ last.align > 1
    /\ \E b \in Bufs :
           /\ RefInside(last.res, b)
           /\ last.res.addr > b.base
           /\ b.data[last.res.addr - b.base] = FillByte
           /\ (last.res.addr - 1) % last.align # 0


\* the operations that work on an open builder
BuilderOps == {"push", "pop", "reserve", "extend_from_slice"}

\* C31: after every push, pop, reserve and extend_from_slice that returned,
\* a builder of elements of non-zero size has
\* start + len * size <= len of its Vec <= capacity of its Vec, len <= cap,
\* start + cap * size <= capacity of its Vec, and every byte of the Vec below
\* start + len * size has been written.
C31_BuilderInvariant ==
    (/\ sb.state = "open"
     /\ sb.size # 0
     /\ last.op \in BuilderOps) =>
        /\ sb.start + sb.len * sb.size <= Len(sb.data)
        /\ Len(sb.data) <= sb.dcap
        /\ sb.len <= sb.cap
        /\ sb.start + sb.cap * sb.size <= sb.dcap
        /\ \A i \in 1..(sb.start + sb.len * sb.size) :
               sb.data[i] # Uninit /\ sb.data[i] \in 0..255

\* C31 witness: a builder of 16-byte elements that has grown twice holds
\* two elements behind a non-empty padding prefix.
C31_Witness ==
    /\ sb.state = "open"
    /\ last.op \in BuilderOps
    /\ sb.size = 16
    /\ sb.start > 0
    /\ sb.len = 2
    /\ sb.cap > 2


\* C32: a push on a builder of elements of non-zero size returns, and the
\* element it wrote lies inside the Vec's allocation: afterwards len is one
\* more and at most cap, start + len * size is at most the Vec's capacity,
\* and the last size bytes below it are the element; also when the push
\* grew the Vec and the new allocation needs a larger alignment offset.
C32_PushInBounds ==
    [][(/\ sb.state = "open"
        /\ sb.size # 0
        /\ last'.op = "push"
        /\ sb' # sb) =>
            /\ sb'.state = "open"
            /\ sb'.len = sb.len + 1
            /\ sb'.len <= sb'.cap
            /\ sb'.start + sb'.len * sb'.size <= sb'.dcap
            /\ (sb'.base + sb'.start) % sb'.align = 0
            /\ SubSeq(sb'.data, sb'.start + sb.len * sb.size + 1,
                      sb'.start + sb'.len * sb'.size) = last'.value]_vars

\* C32 witness: a push at len = cap grew the Vec of a builder that held
\* one 16-byte element at offset 0, and the new allocation put the elements
\* at offset 8.
C32_Witness ==
    /\ last.op = "push"
    /\ sb.state = "open"
    /\ sb.size = 16
    /\ last.cap = 0
    /\ sb.start = 8
    /\ sb.len = 2
    /\ sb.pushed[2] = last.value


\* C33: when a growth of a builder's Vec moves it to a base address whose
\* alignment offset differs from start, and reserve returns, the elements
\* held before are unchanged in value and order, start is the new offset,
\* base + start is a multiple of the element alignment, and the bytes
\* below start are zero.
C33_RealignKeepsElements ==
    [][(/\ sb.state = "open"
        /\ last'.op \in {"reserve", "extend_from_slice", "push"}
        /\ sb.size # 0
        /\ sb.dcap > 0
        /\ sb'.base # sb.base
        /\ Padding(sb.align, sb'.base) # sb.start
        /\ sb'.state # "panicked") =>
            /\ sb'.state = "open"
            /\ sb'.len >= sb.len
            /\ \A k \in 1..sb.len : deref(sb')[k] = deref(sb)[k]
            /\ sb'.start = Padding(sb.align, sb'.base)
            /\ (sb'.base + sb'.start) % sb.align = 0
            /\ \A i \in 1..sb'.start : sb'.data[i] = 0]_vars

\* C33 witness: the growth in a push moved a 16-byte element from offset 8
\* down to offset 0 of the new allocation, and the builder still holds it
\* in front of the pushed one.
C33_Witness ==
    /\ last.op = "push"
    /\ sb.state = "open"
    /\ sb.size = 16
    /\ last.cap = 8
    /\ sb.start = 0
    /\ sb.len = 2
    /\ deref(sb) = sb.pushed


\* a call of reserve on an open builder of zero-sized elements
ZstReserveStep ==
    /\ sb.state = "open"
    /\ sb.size = 0
    /\ last'.op = "reserve"
    /\ (last' # last \/ sb' # sb)

\* C34 as stated: a builder of zero-sized elements has unbounded capacity,
\* and every call of reserve on it panics.
C34_EveryZstReservePanics ==
    [][/\ (sb'.size = 0 /\ sb'.state = "open") => sb'.cap = UsizeMax
       /\ ZstReserveStep => sb'.state = "panicked"]_vars

\* C34, amended: a builder of zero-sized elements has capacity usize::MAX
\* from construction on; reserve(additional) on it panics exactly when
\* len + additional exceeds usize::MAX, and otherwise returns with the
\* builder unchanged.
C34_ZstReservePanicsOnOverflowOnly ==
    [][/\ (sb'.size = 0 /\ sb'.state = "open") => sb'.cap = UsizeMax
       /\ ZstReserveStep =>
              IF last'.cap > UsizeMax - sb.len
              THEN sb'.state = "panicked"
              ELSE sb' = sb]_vars

\* C34 witness: reserve(usize::MAX) panicked on a builder that holds a
\* zero-sized element.
C34_Witness ==
    /\ last.op = "reserve"
    /\ last.cap = UsizeMax
    /\ sb.size = 0
    /\ sb.len >= 1
    /\ sb.cap = UsizeMax
    /\ sb.state = "panicked"


\* C35: finalize of a builder with cap > 0 and elements of non-zero size
\* adds exactly one buffer to the pool: the builder's Vec as it is, padding
\* prefix included, at the same base address.  The returned slice starts at
\* that base + start, is aligned for the element type and has len elements.
\* The buffer is in full_buffers when the Vec was exactly full and in
\* nonfull_buffers otherwise.
C35_FinalizeAbsorbsRegion ==
    [][(/\ sb.state = "open"
        /\ sb'.state = "final"
        /\ sb.size > 0
        /\ sb.cap > 0) =>
            LET after == BufSet(full_buffers', nonfull_buffers')
                vec == [base |-> sb.base, cap |-> sb.dcap, data |-> sb.data]
            IN  /\ Bufs \subseteq after
                /\ after \ Bufs = {vec}
                /\ Len(full_buffers') + Len(nonfull_buffers') = NumBufs + 1
                /\ last'.res.some
                /\ last'.res.addr = sb.base + sb.start
                /\ last'.res.addr % sb.align = 0
                /\ last'.cap = sb.len
                /\ ElemsOf(last'.res.bytes, sb.size, sb.len) = deref(sb)
                /\ vec \in BufSet(full_buffers', <<>>)
                       <=> Len(sb.data) = sb.dcap
                /\ vec \in BufSet(<<>>, nonfull_buffers')
                       <=> Len(sb.data) < sb.dcap]_vars

\* C35 witness: a builder of 4-byte elements was finalized with its Vec
\* exactly full, and the Vec is now the buffer of full_buffers that the
\* returned slice points into.
C35_Witness ==
    /\ last.op = "finalize"
    /\ sb.state = "final"
    /\ sb.size = 4
    /\ last.cap = 2
    /\ Len(full_buffers) = 1
    /\ full_buffers[1].base = last.base
    /\ Len(full_buffers[1].data) = full_buffers[1].cap
    /\ last.res.addr = last.base + sb.start


\* C36: finalize of a builder of zero-sized elements returns a slice of len
\* elements, finalize of a builder of sized elements that never allocated
\* (cap 0) returns the empty slice, and neither changes the pool.
C36_FinalizeWithoutStorage ==
    [][(/\ sb.state = "open"
        /\ sb'.state = "final"
        /\ (sb.size = 0 \/ sb.cap = 0)) =>
            /\ full_buffers' = full_buffers
            /\ nonfull_buffers' = nonfull_buffers
            /\ last'.res.some
            /\ last'.res.bytes = <<>>
            /\ sb.size = 0 => last'.cap = sb.len /\ sb.len = Len(sb.pushed)
            /\ sb.size # 0 => last'.cap = 0 /\ sb.pushed = <<>>]_vars

\* C36 witness: a builder that holds two zero-sized elements was finalized
\* to a slice of two elements, and the pool has no buffer.
C36_Witness ==
    /\ last.op = "finalize"
    /\ sb.state = "final"
    /\ sb.size = 0
    /\ last.cap = 2
    /\ Len(sb.pushed) = 2
    /\ Bufs = {}


\* C37: extend_from_slice with a slice of n elements, when it returns, has
\* copied nothing: len and the elements are as before; and the builder's
\* cap is then at least len + n.
C37_ExtendIsCapacityOnly ==
    [][(/\ sb.state = "open"
        /\ last'.op = "extend_from_slice"
        /\ (last' # last \/ sb' # sb)
        /\ sb'.state = "open") =>
            /\ sb'.len = sb.len
            /\ sb'.pushed = sb.pushed
            /\ deref(sb') = deref(sb)
            /\ last'.cap <= sb'.cap - sb.len]_vars


\* len + n exceeds usize::MAX, or the missing capacity times the element
\* size does
ExceedsWord(b, n) ==
    \/ n > UsizeMax - b.len
    \/ /\ b.size # 0
       /\ b.len + n > b.cap
       /\ b.len + n - b.cap > UsizeMax \div b.size

\* C38: a reserve or extend_from_slice whose capacity computation exceeds
\* the machine word panics; it never goes on with a wrapped value.
C38_OverflowPanics ==
    [][(/\ sb.state = "open"
        /\ last'.op \in {"reserve", "extend_from_slice"}
        /\ (last' # last \/ sb' # sb)
        /\ ExceedsWord(sb, last'.cap)) =>
            sb'.state = "panicked"]_vars


-----------------------------------------------------------------------------
(* The alignment functions of util.rs on their own: every power-of-two    *)
(* alignment up to MaxAlign with every address from 0 to MaxAddr.         *)

\* the largest address handed to the alignment functions
MaxAddr == 63

\* the largest alignment handed to them
MaxAlign == 32

\* the alignments the callers may pass: usize::is_power_of_two
PowersOfTwoUpTo(n) == { p \in 1..n : BitAnd(p, p - 1) = 0 }

\* the arguments: last.align and last.base
InitAlign ==
    /\ full_buffers = <<>>
    /\ nonfull_buffers = <<>>
    /\ \E align \in PowersOfTwoUpTo(MaxAlign), addr \in 0..MaxAddr :
           last = Call("align_args", <<>>, align, 0, addr, None)
    /\ steps = 0
    /\ pc = "api"
    /\ out = <<>>
    /\ ExtInit

\* is_aligned_to(align, ptr): the result in last.res.some
IsAlignedTo ==
    /\ last.op = "align_args"
    /\ last' = [last EXCEPT !.op = "is_aligned_to",
                            !.res = [some |-> is_aligned_to(last.align, last.base),
                                     addr |-> last.base, bytes |-> <<>>]]
    /\ UNCHANGED <<full_buffers, nonfull_buffers, steps, pc, out, ext>>

\* align_offset(align, ptr): the result in last.cap
AlignOffset ==
    /\ last.op = "is_aligned_to"
    /\ last' = [last EXCEPT !.op = "align_offset",
                            !.cap = align_offset(last.align, last.base)]
    /\ UNCHANGED <<full_buffers, nonfull_buffers, steps, pc, out, ext>>

NextAlign ==
    \/ IsAlignedTo
    \/ AlignOffset

SpecAlign == InitAlign /\ [][NextAlign]_vars

\* C39: for every power-of-two align and every address, is_aligned_to holds
\* iff the address is a multiple of align, the address 0 included;
\* align_offset is the one p in 0..align-1 with address + p a multiple of
\* align; it is 0 iff the address is aligned, and the address it leads to
\* is aligned.
C39_AlignmentArithmetic ==
    /\ last.op \in {"is_aligned_to", "align_offset"} =>
           (last.res.some <=> last.base % last.align = 0)
    /\ last.op = "align_offset" =>
           /\ last.cap \in 0..(last.align - 1)
           /\ (last.base + last.cap) % last.align = 0
           /\ \A p \in 0..(last.align - 1) :
                  (last.base + p) % last.align = 0 => p = last.cap
           /\ last.cap = 0 <=> last.res.some
           /\ is_aligned_to(last.align, last.base + last.cap)

\* C39 witness: the address 0 is aligned to 16 and needs no padding.
C39_Witness ==
    /\ last.op = "align_offset"
    /\ last.base = 0
    /\ last.align = 16
    /\ last.res.some
    /\ last.cap = 0


\* C40: on the shared variant a thread that asks for the lock holds no
\* guard of it, and, with a fair lock, every call that a thread has
\* started returns unless a guard holder has panicked: no call waits for
\* ever.
C40_EveryCallReturns ==
    /\ [](\A t \in Threads :
              th[t].pc \in {"want_r", "want_w"} =>
                  t \notin lock.readers /\ lock.writer # t)
    /\ \A t \in Threads :
           (th[t].pc \notin {"idle", "dead"}) ~>
               (th[t].pc = "idle" \/ lock.broken)

\* C40 witness: two calls that both append overlapped in time, and both
\* have returned.
C40_Witness ==
    /\ ~lock.broken
    /\ \E t \in Threads :
           /\ th[t].pc = "idle"
           /\ th[t].kind = "ok"
           /\ th[t].appended
           /\ \E u \in th[t].peers :
                  /\ th[u].pc = "idle"
                  /\ th[u].kind = "ok"
                  /\ th[u].appended

====
